---- MODULE Spec2Model ----
(***************************************************************************)
(* Model of the two bulk-rewrite scripts of llm-connector:                 *)
(*   scripts/fix_message_construction.py  (structural rewriter + driver)   *)
(*   scripts/translate_rust_comments.py   (lexical rewriter + driver)      *)
(*                                                                         *)
(* A Python str is a sequence of characters.  A character is a string of   *)
(* length one for ASCII ("a", " ", "\n") and the string "Uxxxx" for the    *)
(* code point xxxx (hexadecimal) otherwise, the backquote (U0060)          *)
(* included: <<"U521B", "U5EFA">> is the text written 创建 in the source.  *)
(* Files are read in text mode as the content they hold; the translation   *)
(* of line ends by the io layer is left out.                               *)
(***************************************************************************)
EXTENDS Integers, Sequences, FiniteSets, TLC

VARIABLES
    driver,     \* which script runs: "fix" or "translate"
    dirExists,  \* whether the corpus directory (examples / src) exists
    disk,       \* file -> its content, Unread until the driver has opened it
    pc,         \* position of the driver
    idx,        \* index of the file the loop is at
    content,    \* the content read from the file at idx
    cur,        \* the content as rewritten so far
    count,      \* fixed_count / translated_count
    writes,     \* the files written, in order
    visited,    \* the files whose processing completed
    out,        \* what was printed, in order
    status,     \* <<>> while the script runs, then <<its exit status>>
    table,      \* the phrase table of a translate_line call on its own
    line,       \* the line given to that call
    lineOut     \* what the call returned, once done

vars == <<driver, dirExists, disk, pc, idx, content, cur, count, writes,
          visited, out, status, table, line, lineOut>>

driverVars == <<driver, dirExists, disk, pc, idx, content, cur, count,
                writes, visited, out, status>>
lineVars == <<table, line, lineOut>>

-----------------------------------------------------------------------------
(* Python str operations used by the scripts.                              *)

\* The characters of an ASCII string literal.
S(str) == [i \in 1..Len(str) |-> SubSeq(str, i, i)]

\* text[i : i + len(sub)] == sub
StartsAt(text, i, sub) ==
    /\ i + Len(sub) - 1 <= Len(text)
    /\ SubSeq(text, i, i + Len(sub) - 1) = sub

Min(set) == CHOOSE x \in set : \A y \in set : x <= y
Max(set) == CHOOSE x \in set : \A y \in set : x >= y

\* text.find(sub, start), 1-based; 0 when sub does not occur.
str_find(text, sub, start) ==
    LET hits == {i \in start..(Len(text) - Len(sub) + 1) : StartsAt(text, i, sub)}
    IN IF hits = {} THEN 0 ELSE Min(hits)

\* sub in text
str_contains(sub, text) == str_find(text, sub, 1) # 0

\* text.replace("", new): new before every character and at the end.
RECURSIVE str_interleave(_, _)
str_interleave(text, new) ==
    IF text = <<>> THEN new
    ELSE new \o <<Head(text)>> \o str_interleave(Tail(text), new)

\* text.replace(old, new): every non-overlapping occurrence, leftmost first.
RECURSIVE str_replace(_, _, _)
str_replace(text, old, new) ==
    IF old = <<>> THEN str_interleave(text, new)
    ELSE LET i == str_find(text, old, 1) IN
         IF i = 0 THEN text
         ELSE SubSeq(text, 1, i - 1) \o new
              \o str_replace(SubSeq(text, i + Len(old), Len(text)), old, new)

\* text.split(sep), sep not empty.
RECURSIVE str_split(_, _)
str_split(text, sep) ==
    LET i == str_find(text, sep, 1) IN
    IF i = 0 THEN <<text>>
    ELSE <<SubSeq(text, 1, i - 1)>>
         \o str_split(SubSeq(text, i + Len(sep), Len(text)), sep)

\* sep.join(parts)
RECURSIVE str_join(_, _)
str_join(sep, parts) ==
    IF parts = <<>> THEN <<>>
    ELSE IF Len(parts) = 1 THEN parts[1]
    ELSE parts[1] \o sep \o str_join(sep, Tail(parts))

\* The dict a display { k1: v1, k2: v2, ... } evaluates to, kept as the
\* sequence of its <<key, value>> in iteration order: a key written again
\* keeps the position of its first item and takes the value of its last.
dict_display(items) ==
    LET first == {i \in DOMAIN items :
                     \A j \in 1..(i - 1) : items[j][1] # items[i][1]}
        nth(k) == CHOOSE i \in first :
                     Cardinality({j \in first : j < i}) = k - 1
        last(i) == Max({j \in DOMAIN items : items[j][1] = items[i][1]})
    IN [k \in 1..Cardinality(first) |->
           <<items[nth(k)][1], items[last(nth(k))][2]>>]

-----------------------------------------------------------------------------
(* translate_rust_comments.py: the phrase table.  TRANSLATIONS_items are   *)
(* the "key": "value" items of the dict display in the order written, each *)
(* under a comment giving its source line; TRANSLATIONS is the dict the    *)
(* display evaluates to.                                                   *)

TRANSLATIONS_items == <<
    \* 13: "V2统一客户端 - 下一代LLM客户端接口": "V2 Unified Client - Next-generation LLM client interface"
    <<S("V2") \o <<"U7EDF", "U4E00", "U5BA2", "U6237", "U7AEF">> \o S(" - ") \o <<"U4E0B", "U4E00", "U4EE3">> \o S("LLM") \o <<"U5BA2", "U6237", "U7AEF", "U63A5", "U53E3">>,
      S("V2 Unified Client - Next-generation LLM client interface")>>,
    \* 14: "这个模块提供统一的客户端接口，支持所有LLM服务提供商": "This module provides a unified client interface supporting all LLM service providers"
    <<<<"U8FD9", "U4E2A", "U6A21", "U5757", "U63D0", "U4F9B", "U7EDF", "U4E00", "U7684", "U5BA2", "U6237", "U7AEF", "U63A5", "U53E3", "UFF0C", "U652F", "U6301", "U6240", "U6709">> \o S("LLM") \o <<"U670D", "U52A1", "U63D0", "U4F9B", "U5546">>,
      S("This module provides a unified client interface supporting all LLM service providers")>>,
    \* 17: "统一LLM客户端": "Unified LLM Client"
    <<<<"U7EDF", "U4E00">> \o S("LLM") \o <<"U5BA2", "U6237", "U7AEF">>,
      S("Unified LLM Client")>>,
    \* 18: "这个客户端提供统一的接口来访问各种LLM服务": "This client provides a unified interface to access various LLM services"
    <<<<"U8FD9", "U4E2A", "U5BA2", "U6237", "U7AEF", "U63D0", "U4F9B", "U7EDF", "U4E00", "U7684", "U63A5", "U53E3", "U6765", "U8BBF", "U95EE", "U5404", "U79CD">> \o S("LLM") \o <<"U670D", "U52A1">>,
      S("This client provides a unified interface to access various LLM services")>>,
    \* 19: "使用V2架构的清晰抽象层": "using V2 architecture's clean abstraction layer"
    <<<<"U4F7F", "U7528">> \o S("V2") \o <<"U67B6", "U6784", "U7684", "U6E05", "U6670", "U62BD", "U8C61", "U5C42">>,
      S("using V2 architecture's clean abstraction layer")>>,
    \* 22: "示例": "Example"
    <<<<"U793A", "U4F8B">>,
      S("Example")>>,
    \* 23: "参数": "Parameters"
    <<<<"U53C2", "U6570">>,
      S("Parameters")>>,
    \* 24: "返回": "Returns"
    <<<<"U8FD4", "U56DE">>,
      S("Returns")>>,
    \* 25: "错误": "Errors"
    <<<<"U9519", "U8BEF">>,
      S("Errors")>>,
    \* 28: "阿里云DashScope": "Aliyun DashScope"
    <<<<"U963F", "U91CC", "U4E91">> \o S("DashScope"),
      S("Aliyun DashScope")>>,
    \* 29: "智谱GLM": "Zhipu GLM"
    <<<<"U667A", "U8C31">> \o S("GLM"),
      S("Zhipu GLM")>>,
    \* 30: "火山引擎": "Volcengine"
    <<<<"U706B", "U5C71", "U5F15", "U64CE">>,
      S("Volcengine")>>,
    \* 31: "腾讯云混元": "Tencent Hunyuan"
    <<<<"U817E", "U8BAF", "U4E91", "U6DF7", "U5143">>,
      S("Tencent Hunyuan")>>,
    \* 32: "月之暗面": "Moonshot"
    <<<<"U6708", "U4E4B", "U6697", "U9762">>,
      S("Moonshot")>>,
    \* 35: "从任何Provider创建客户端": "Create client from any Provider"
    <<<<"U4ECE", "U4EFB", "U4F55">> \o S("Provider") \o <<"U521B", "U5EFA", "U5BA2", "U6237", "U7AEF">>,
      S("Create client from any Provider")>>,
    \* 36: "创建OpenAI客户端": "Create OpenAI client"
    <<<<"U521B", "U5EFA">> \o S("OpenAI") \o <<"U5BA2", "U6237", "U7AEF">>,
      S("Create OpenAI client")>>,
    \* 37: "创建带有自定义基础URL的OpenAI客户端": "Create OpenAI client with custom base URL"
    <<<<"U521B", "U5EFA", "U5E26", "U6709", "U81EA", "U5B9A", "U4E49", "U57FA", "U7840">> \o S("URL") \o <<"U7684">> \o S("OpenAI") \o <<"U5BA2", "U6237", "U7AEF">>,
      S("Create OpenAI client with custom base URL")>>,
    \* 38: "创建Azure OpenAI客户端": "Create Azure OpenAI client"
    <<<<"U521B", "U5EFA">> \o S("Azure OpenAI") \o <<"U5BA2", "U6237", "U7AEF">>,
      S("Create Azure OpenAI client")>>,
    \* 39: "创建阿里云DashScope客户端": "Create Aliyun DashScope client"
    <<<<"U521B", "U5EFA", "U963F", "U91CC", "U4E91">> \o S("DashScope") \o <<"U5BA2", "U6237", "U7AEF">>,
      S("Create Aliyun DashScope client")>>,
    \* 40: "创建Anthropic Claude客户端": "Create Anthropic Claude client"
    <<<<"U521B", "U5EFA">> \o S("Anthropic Claude") \o <<"U5BA2", "U6237", "U7AEF">>,
      S("Create Anthropic Claude client")>>,
    \* 41: "创建智谱GLM客户端": "Create Zhipu GLM client"
    <<<<"U521B", "U5EFA", "U667A", "U8C31">> \o S("GLM") \o <<"U5BA2", "U6237", "U7AEF">>,
      S("Create Zhipu GLM client")>>,
    \* 42: "创建智谱GLM客户端 (OpenAI兼容模式)": "Create Zhipu GLM client (OpenAI compatible mode)"
    <<<<"U521B", "U5EFA", "U667A", "U8C31">> \o S("GLM") \o <<"U5BA2", "U6237", "U7AEF">> \o S(" (OpenAI") \o <<"U517C", "U5BB9", "U6A21", "U5F0F">> \o S(")"),
      S("Create Zhipu GLM client (OpenAI compatible mode)")>>,
    \* 43: "创建Ollama客户端 (默认本地地址)": "Create Ollama client (default local address)"
    <<<<"U521B", "U5EFA">> \o S("Ollama") \o <<"U5BA2", "U6237", "U7AEF">> \o S(" (") \o <<"U9ED8", "U8BA4", "U672C", "U5730", "U5730", "U5740">> \o S(")"),
      S("Create Ollama client (default local address)")>>,
    \* 44: "创建带有自定义URL的Ollama客户端": "Create Ollama client with custom URL"
    <<<<"U521B", "U5EFA", "U5E26", "U6709", "U81EA", "U5B9A", "U4E49">> \o S("URL") \o <<"U7684">> \o S("Ollama") \o <<"U5BA2", "U6237", "U7AEF">>,
      S("Create Ollama client with custom URL")>>,
    \* 45: "创建OpenAI兼容服务客户端": "Create OpenAI-compatible service client"
    <<<<"U521B", "U5EFA">> \o S("OpenAI") \o <<"U517C", "U5BB9", "U670D", "U52A1", "U5BA2", "U6237", "U7AEF">>,
      S("Create OpenAI-compatible service client")>>,
    \* 46: "创建LongCat Anthropic格式客户端": "Create LongCat Anthropic format client"
    <<<<"U521B", "U5EFA">> \o S("LongCat Anthropic") \o <<"U683C", "U5F0F", "U5BA2", "U6237", "U7AEF">>,
      S("Create LongCat Anthropic format client")>>,
    \* 47: "创建带有自定义配置的LongCat Anthropic客户端": "Create LongCat Anthropic client with custom configuration"
    <<<<"U521B", "U5EFA", "U5E26", "U6709", "U81EA", "U5B9A", "U4E49", "U914D", "U7F6E", "U7684">> \o S("LongCat Anthropic") \o <<"U5BA2", "U6237", "U7AEF">>,
      S("Create LongCat Anthropic client with custom configuration")>>,
    \* 48: "创建火山引擎（Volcengine）客户端": "Create Volcengine client"
    <<<<"U521B", "U5EFA", "U706B", "U5C71", "U5F15", "U64CE", "UFF08">> \o S("Volcengine") \o <<"UFF09", "U5BA2", "U6237", "U7AEF">>,
      S("Create Volcengine client")>>,
    \* 49: "创建带有自定义配置的火山引擎客户端": "Create Volcengine client with custom configuration"
    <<<<"U521B", "U5EFA", "U5E26", "U6709", "U81EA", "U5B9A", "U4E49", "U914D", "U7F6E", "U7684", "U706B", "U5C71", "U5F15", "U64CE", "U5BA2", "U6237", "U7AEF">>,
      S("Create Volcengine client with custom configuration")>>,
    \* 50: "创建腾讯云混元（Tencent Hunyuan）客户端": "Create Tencent Hunyuan client"
    <<<<"U521B", "U5EFA", "U817E", "U8BAF", "U4E91", "U6DF7", "U5143", "UFF08">> \o S("Tencent Hunyuan") \o <<"UFF09", "U5BA2", "U6237", "U7AEF">>,
      S("Create Tencent Hunyuan client")>>,
    \* 51: "创建带有自定义配置的腾讯云混元客户端": "Create Tencent Hunyuan client with custom configuration"
    <<<<"U521B", "U5EFA", "U5E26", "U6709", "U81EA", "U5B9A", "U4E49", "U914D", "U7F6E", "U7684", "U817E", "U8BAF", "U4E91", "U6DF7", "U5143", "U5BA2", "U6237", "U7AEF">>,
      S("Create Tencent Hunyuan client with custom configuration")>>,
    \* 52: "创建 Moonshot（月之暗面）客户端": "Create Moonshot client"
    <<<<"U521B", "U5EFA">> \o S(" Moonshot") \o <<"UFF08", "U6708", "U4E4B", "U6697", "U9762", "UFF09", "U5BA2", "U6237", "U7AEF">>,
      S("Create Moonshot client")>>,
    \* 53: "创建带有自定义配置的 Moonshot 客户端": "Create Moonshot client with custom configuration"
    <<<<"U521B", "U5EFA", "U5E26", "U6709", "U81EA", "U5B9A", "U4E49", "U914D", "U7F6E", "U7684">> \o S(" Moonshot ") \o <<"U5BA2", "U6237", "U7AEF">>,
      S("Create Moonshot client with custom configuration")>>,
    \* 54: "创建 DeepSeek 客户端": "Create DeepSeek client"
    <<<<"U521B", "U5EFA">> \o S(" DeepSeek ") \o <<"U5BA2", "U6237", "U7AEF">>,
      S("Create DeepSeek client")>>,
    \* 55: "创建带有自定义配置的 DeepSeek 客户端": "Create DeepSeek client with custom configuration"
    <<<<"U521B", "U5EFA", "U5E26", "U6709", "U81EA", "U5B9A", "U4E49", "U914D", "U7F6E", "U7684">> \o S(" DeepSeek ") \o <<"U5BA2", "U6237", "U7AEF">>,
      S("Create DeepSeek client with custom configuration")>>,
    \* 58: "高级构造函数 - 自定义配置": "Advanced Constructors - Custom Configuration"
    <<<<"U9AD8", "U7EA7", "U6784", "U9020", "U51FD", "U6570">> \o S(" - ") \o <<"U81EA", "U5B9A", "U4E49", "U914D", "U7F6E">>,
      S("Advanced Constructors - Custom Configuration")>>,
    \* 59: "创建带有自定义配置的OpenAI客户端": "Create OpenAI client with custom configuration"
    <<<<"U521B", "U5EFA", "U5E26", "U6709", "U81EA", "U5B9A", "U4E49", "U914D", "U7F6E", "U7684">> \o S("OpenAI") \o <<"U5BA2", "U6237", "U7AEF">>,
      S("Create OpenAI client with custom configuration")>>,
    \* 60: "创建带有自定义配置的Aliyun客户端": "Create Aliyun client with custom configuration"
    <<<<"U521B", "U5EFA", "U5E26", "U6709", "U81EA", "U5B9A", "U4E49", "U914D", "U7F6E", "U7684">> \o S("Aliyun") \o <<"U5BA2", "U6237", "U7AEF">>,
      S("Create Aliyun client with custom configuration")>>,
    \* 61: "创建Aliyun国际版客户端": "Create Aliyun international client"
    <<<<"U521B", "U5EFA">> \o S("Aliyun") \o <<"U56FD", "U9645", "U7248", "U5BA2", "U6237", "U7AEF">>,
      S("Create Aliyun international client")>>,
    \* 62: "创建Aliyun专有云客户端": "Create Aliyun private cloud client"
    <<<<"U521B", "U5EFA">> \o S("Aliyun") \o <<"U4E13", "U6709", "U4E91", "U5BA2", "U6237", "U7AEF">>,
      S("Create Aliyun private cloud client")>>,
    \* 63: "创建带有自定义超时的Aliyun客户端": "Create Aliyun client with custom timeout"
    <<<<"U521B", "U5EFA", "U5E26", "U6709", "U81EA", "U5B9A", "U4E49", "U8D85", "U65F6", "U7684">> \o S("Aliyun") \o <<"U5BA2", "U6237", "U7AEF">>,
      S("Create Aliyun client with custom timeout")>>,
    \* 64: "创建带有自定义配置的Anthropic客户端": "Create Anthropic client with custom configuration"
    <<<<"U521B", "U5EFA", "U5E26", "U6709", "U81EA", "U5B9A", "U4E49", "U914D", "U7F6E", "U7684">> \o S("Anthropic") \o <<"U5BA2", "U6237", "U7AEF">>,
      S("Create Anthropic client with custom configuration")>>,
    \* 65: "创建Anthropic Vertex AI客户端": "Create Anthropic Vertex AI client"
    <<<<"U521B", "U5EFA">> \o S("Anthropic Vertex AI") \o <<"U5BA2", "U6237", "U7AEF">>,
      S("Create Anthropic Vertex AI client")>>,
    \* 66: "创建Anthropic AWS Bedrock客户端": "Create Anthropic AWS Bedrock client"
    <<<<"U521B", "U5EFA">> \o S("Anthropic AWS Bedrock") \o <<"U5BA2", "U6237", "U7AEF">>,
      S("Create Anthropic AWS Bedrock client")>>,
    \* 67: "创建带有自定义超时的Anthropic客户端": "Create Anthropic client with custom timeout"
    <<<<"U521B", "U5EFA", "U5E26", "U6709", "U81EA", "U5B9A", "U4E49", "U8D85", "U65F6", "U7684">> \o S("Anthropic") \o <<"U5BA2", "U6237", "U7AEF">>,
      S("Create Anthropic client with custom timeout")>>,
    \* 68: "创建带有自定义配置的Zhipu客户端": "Create Zhipu client with custom configuration"
    <<<<"U521B", "U5EFA", "U5E26", "U6709", "U81EA", "U5B9A", "U4E49", "U914D", "U7F6E", "U7684">> \o S("Zhipu") \o <<"U5BA2", "U6237", "U7AEF">>,
      S("Create Zhipu client with custom configuration")>>,
    \* 69: "创建带有自定义超时的Zhipu客户端": "Create Zhipu client with custom timeout"
    <<<<"U521B", "U5EFA", "U5E26", "U6709", "U81EA", "U5B9A", "U4E49", "U8D85", "U65F6", "U7684">> \o S("Zhipu") \o <<"U5BA2", "U6237", "U7AEF">>,
      S("Create Zhipu client with custom timeout")>>,
    \* 70: "创建Zhipu企业版客户端": "Create Zhipu enterprise client"
    <<<<"U521B", "U5EFA">> \o S("Zhipu") \o <<"U4F01", "U4E1A", "U7248", "U5BA2", "U6237", "U7AEF">>,
      S("Create Zhipu enterprise client")>>,
    \* 71: "创建带有自定义配置的Ollama客户端": "Create Ollama client with custom configuration"
    <<<<"U521B", "U5EFA", "U5E26", "U6709", "U81EA", "U5B9A", "U4E49", "U914D", "U7F6E", "U7684">> \o S("Ollama") \o <<"U5BA2", "U6237", "U7AEF">>,
      S("Create Ollama client with custom configuration")>>,
    \* 74: "获取提供商名称": "Get provider name"
    <<<<"U83B7", "U53D6", "U63D0", "U4F9B", "U5546", "U540D", "U79F0">>,
      S("Get provider name")>>,
    \* 75: "发送聊天完成请求": "Send chat completion request"
    <<<<"U53D1", "U9001", "U804A", "U5929", "U5B8C", "U6210", "U8BF7", "U6C42">>,
      S("Send chat completion request")>>,
    \* 76: "发送流式聊天完成请求": "Send streaming chat completion request"
    <<<<"U53D1", "U9001", "U6D41", "U5F0F", "U804A", "U5929", "U5B8C", "U6210", "U8BF7", "U6C42">>,
      S("Send streaming chat completion request")>>,
    \* 77: "获取可用模型列表": "Get available models list"
    <<<<"U83B7", "U53D6", "U53EF", "U7528", "U6A21", "U578B", "U5217", "U8868">>,
      S("Get available models list")>>,
    \* 78: "获取底层提供商的引用 (用于特殊功能访问)": "Get reference to underlying provider (for special feature access)"
    <<<<"U83B7", "U53D6", "U5E95", "U5C42", "U63D0", "U4F9B", "U5546", "U7684", "U5F15", "U7528">> \o S(" (") \o <<"U7528", "U4E8E", "U7279", "U6B8A", "U529F", "U80FD", "U8BBF", "U95EE">> \o S(")"),
      S("Get reference to underlying provider (for special feature access)")>>,
    \* 79: "类型安全的Provider转换方法": "Type-safe Provider conversion methods"
    <<<<"U7C7B", "U578B", "U5B89", "U5168", "U7684">> \o S("Provider") \o <<"U8F6C", "U6362", "U65B9", "U6CD5">>,
      S("Type-safe Provider conversion methods")>>,
    \* 80: "尝试将客户端转换为OllamaProvider": "Try to convert client to OllamaProvider"
    <<<<"U5C1D", "U8BD5", "U5C06", "U5BA2", "U6237", "U7AEF", "U8F6C", "U6362", "U4E3A">> \o S("OllamaProvider"),
      S("Try to convert client to OllamaProvider")>>,
    \* 83: "OpenAI API密钥": "OpenAI API key"
    <<S("OpenAI API") \o <<"U5BC6", "U94A5">>,
      S("OpenAI API key")>>,
    \* 84: "API密钥": "API key"
    <<S("API") \o <<"U5BC6", "U94A5">>,
      S("API key")>>,
    \* 85: "自定义基础URL": "Custom base URL"
    <<<<"U81EA", "U5B9A", "U4E49", "U57FA", "U7840">> \o S("URL"),
      S("Custom base URL")>>,
    \* 86: "Azure OpenAI API密钥": "Azure OpenAI API key"
    <<S("Azure OpenAI API") \o <<"U5BC6", "U94A5">>,
      S("Azure OpenAI API key")>>,
    \* 87: "Azure OpenAI端点": "Azure OpenAI endpoint"
    <<S("Azure OpenAI") \o <<"U7AEF", "U70B9">>,
      S("Azure OpenAI endpoint")>>,
    \* 88: "API版本": "API version"
    <<S("API") \o <<"U7248", "U672C">>,
      S("API version")>>,
    \* 89: "Anthropic API密钥 (格式: sk-ant-...)": "Anthropic API key (format: sk-ant-...)"
    <<S("Anthropic API") \o <<"U5BC6", "U94A5">> \o S(" (") \o <<"U683C", "U5F0F">> \o S(": sk-ant-...)"),
      S("Anthropic API key (format: sk-ant-...)")>>,
    \* 90: "服务基础URL": "Service base URL"
    <<<<"U670D", "U52A1", "U57FA", "U7840">> \o S("URL"),
      S("Service base URL")>>,
    \* 91: "服务名称": "Service name"
    <<<<"U670D", "U52A1", "U540D", "U79F0">>,
      S("Service name")>>,
    \* 92: "Ollama服务的URL": "Ollama service URL"
    <<S("Ollama") \o <<"U670D", "U52A1", "U7684">> \o S("URL"),
      S("Ollama service URL")>>,
    \* 93: "聊天请求": "Chat request"
    <<<<"U804A", "U5929", "U8BF7", "U6C42">>,
      S("Chat request")>>,
    \* 94: "聊天响应": "Chat response"
    <<<<"U804A", "U5929", "U54CD", "U5E94">>,
      S("Chat response")>>,
    \* 95: "聊天流": "Chat stream"
    <<<<"U804A", "U5929", "U6D41">>,
      S("Chat stream")>>,
    \* 96: "模型名称列表": "List of model names"
    <<<<"U6A21", "U578B", "U540D", "U79F0", "U5217", "U8868">>,
      S("List of model names")>>,
    \* 99: "如果底层Provider是OllamaProvider，返回Some引用，否则返回None": "Returns Some reference if underlying Provider is OllamaProvider, otherwise None"
    <<<<"U5982", "U679C", "U5E95", "U5C42">> \o S("Provider") \o <<"U662F">> \o S("OllamaProvider") \o <<"UFF0C", "U8FD4", "U56DE">> \o S("Some") \o <<"U5F15", "U7528", "UFF0C", "U5426", "U5219", "U8FD4", "U56DE">> \o S("None"),
      S("Returns Some reference if underlying Provider is OllamaProvider, otherwise None")>>,
    \* 100: "可以进行类型转换以访问特定提供商的功能": "Can perform type conversion to access provider-specific features"
    <<<<"U53EF", "U4EE5", "U8FDB", "U884C", "U7C7B", "U578B", "U8F6C", "U6362", "U4EE5", "U8BBF", "U95EE", "U7279", "U5B9A", "U63D0", "U4F9B", "U5546", "U7684", "U529F", "U80FD">>,
      S("Can perform type conversion to access provider-specific features")>>,
    \* 103: "创建请求": "Create request"
    <<<<"U521B", "U5EFA", "U8BF7", "U6C42">>,
      S("Create request")>>,
    \* 104: "发送请求": "Send request"
    <<<<"U53D1", "U9001", "U8BF7", "U6C42">>,
      S("Send request")>>,
    \* 105: "创建": "Create"
    <<<<"U521B", "U5EFA">>,
      S("Create")>>,
    \* 106: "获取": "Get"
    <<<<"U83B7", "U53D6">>,
      S("Get")>>,
    \* 107: "设置": "Set"
    <<<<"U8BBE", "U7F6E">>,
      S("Set")>>,
    \* 108: "检查": "Check"
    <<<<"U68C0", "U67E5">>,
      S("Check")>>,
    \* 109: "验证": "Validate"
    <<<<"U9A8C", "U8BC1">>,
      S("Validate")>>,
    \* 110: "转换": "Convert"
    <<<<"U8F6C", "U6362">>,
      S("Convert")>>,
    \* 111: "解析": "Parse"
    <<<<"U89E3", "U6790">>,
      S("Parse")>>,
    \* 112: "构建": "Build"
    <<<<"U6784", "U5EFA">>,
      S("Build")>>,
    \* 113: "初始化": "Initialize"
    <<<<"U521D", "U59CB", "U5316">>,
      S("Initialize")>>,
    \* 116: "火山引擎使用 OpenAI 兼容的 API 格式，但端点路径不同": "Volcengine uses OpenAI-compatible API format, but with different endpoint paths"
    <<<<"U706B", "U5C71", "U5F15", "U64CE", "U4F7F", "U7528">> \o S(" OpenAI ") \o <<"U517C", "U5BB9", "U7684">> \o S(" API ") \o <<"U683C", "U5F0F", "UFF0C", "U4F46", "U7AEF", "U70B9", "U8DEF", "U5F84", "U4E0D", "U540C">>,
      S("Volcengine uses OpenAI-compatible API format, but with different endpoint paths")>>,
    \* 117: "腾讯云混元使用 OpenAI 兼容的 API 格式": "Tencent Hunyuan uses OpenAI-compatible API format"
    <<<<"U817E", "U8BAF", "U4E91", "U6DF7", "U5143", "U4F7F", "U7528">> \o S(" OpenAI ") \o <<"U517C", "U5BB9", "U7684">> \o S(" API ") \o <<"U683C", "U5F0F">>,
      S("Tencent Hunyuan uses OpenAI-compatible API format")>>,
    \* 118: "Moonshot 使用 OpenAI 兼容的 API 格式": "Moonshot uses OpenAI-compatible API format"
    <<S("Moonshot ") \o <<"U4F7F", "U7528">> \o S(" OpenAI ") \o <<"U517C", "U5BB9", "U7684">> \o S(" API ") \o <<"U683C", "U5F0F">>,
      S("Moonshot uses OpenAI-compatible API format")>>,
    \* 119: "DeepSeek 使用 OpenAI 兼容的 API 格式，支持推理模型": "DeepSeek uses OpenAI-compatible API format, supports reasoning models"
    <<S("DeepSeek ") \o <<"U4F7F", "U7528">> \o S(" OpenAI ") \o <<"U517C", "U5BB9", "U7684">> \o S(" API ") \o <<"U683C", "U5F0F", "UFF0C", "U652F", "U6301", "U63A8", "U7406", "U6A21", "U578B">>,
      S("DeepSeek uses OpenAI-compatible API format, supports reasoning models")>>,
    \* 120: "LongCat的Anthropic端点使用Bearer认证而不是标准的x-api-key认证": "LongCat's Anthropic endpoint uses Bearer authentication instead of standard x-api-key authentication"
    <<S("LongCat") \o <<"U7684">> \o S("Anthropic") \o <<"U7AEF", "U70B9", "U4F7F", "U7528">> \o S("Bearer") \o <<"U8BA4", "U8BC1", "U800C", "U4E0D", "U662F", "U6807", "U51C6", "U7684">> \o S("x-api-key") \o <<"U8BA4", "U8BC1">>,
      S("LongCat's Anthropic endpoint uses Bearer authentication instead of standard x-api-key authentication")>>,
    \* 123: "支持多模态内容，包括文本、图片等": "Supports multi-modal content including text, images, etc."
    <<<<"U652F", "U6301", "U591A", "U6A21", "U6001", "U5185", "U5BB9", "UFF0C", "U5305", "U62EC", "U6587", "U672C", "U3001", "U56FE", "U7247", "U7B49">>,
      S("Supports multi-modal content including text, images, etc.")>>,
    \* 124: "一条消息可以包含多个内容块，支持文本、图片等多模态内容": "A message can contain multiple content blocks, supporting multi-modal content like text, images, etc."
    <<<<"U4E00", "U6761", "U6D88", "U606F", "U53EF", "U4EE5", "U5305", "U542B", "U591A", "U4E2A", "U5185", "U5BB9", "U5757", "UFF0C", "U652F", "U6301", "U6587", "U672C", "U3001", "U56FE", "U7247", "U7B49", "U591A", "U6A21", "U6001", "U5185", "U5BB9">>,
      S("A message can contain multiple content blocks, supporting multi-modal content like text, images, etc.")>>,
    \* 125: "可配置的协议适配器 - 配置驱动的抽象": "Configurable Protocol Adapter - Configuration-driven abstraction"
    <<<<"U53EF", "U914D", "U7F6E", "U7684", "U534F", "U8BAE", "U9002", "U914D", "U5668">> \o S(" - ") \o <<"U914D", "U7F6E", "U9A71", "U52A8", "U7684", "U62BD", "U8C61">>,
      S("Configurable Protocol Adapter - Configuration-driven abstraction")>>,
    \* 126: "这个模块提供了一个通用的协议适配器，通过配置来定制行为，": "This module provides a generic protocol adapter that customizes behavior through configuration,"
    <<<<"U8FD9", "U4E2A", "U6A21", "U5757", "U63D0", "U4F9B", "U4E86", "U4E00", "U4E2A", "U901A", "U7528", "U7684", "U534F", "U8BAE", "U9002", "U914D", "U5668", "UFF0C", "U901A", "U8FC7", "U914D", "U7F6E", "U6765", "U5B9A", "U5236", "U884C", "U4E3A", "UFF0C">>,
      S("This module provides a generic protocol adapter that customizes behavior through configuration,")>>,
    \* 127: "可配置的协议适配器": "Configurable Protocol Adapter"
    <<<<"U53EF", "U914D", "U7F6E", "U7684", "U534F", "U8BAE", "U9002", "U914D", "U5668">>,
      S("Configurable Protocol Adapter")>>,
    \* 128: "包装一个基础协议，通过配置来修改其行为（端点路径、认证方式等）。": "Wraps a base protocol and modifies its behavior through configuration (endpoint paths, authentication methods, etc.)."
    <<<<"U5305", "U88C5", "U4E00", "U4E2A", "U57FA", "U7840", "U534F", "U8BAE", "UFF0C", "U901A", "U8FC7", "U914D", "U7F6E", "U6765", "U4FEE", "U6539", "U5176", "U884C", "U4E3A", "UFF08", "U7AEF", "U70B9", "U8DEF", "U5F84", "U3001", "U8BA4", "U8BC1", "U65B9", "U5F0F", "U7B49", "UFF09", "U3002">>,
      S("Wraps a base protocol and modifies its behavior through configuration (endpoint paths, authentication methods, etc.).")>>,
    \* 129: "协议配置": "Protocol Configuration"
    <<<<"U534F", "U8BAE", "U914D", "U7F6E">>,
      S("Protocol Configuration")>>,
    \* 130: "定义协议的静态配置，包括名称、端点、认证方式等。": "Defines static configuration for the protocol, including name, endpoints, authentication methods, etc."
    <<<<"U5B9A", "U4E49", "U534F", "U8BAE", "U7684", "U9759", "U6001", "U914D", "U7F6E", "UFF0C", "U5305", "U62EC", "U540D", "U79F0", "U3001", "U7AEF", "U70B9", "U3001", "U8BA4", "U8BC1", "U65B9", "U5F0F", "U7B49", "U3002">>,
      S("Defines static configuration for the protocol, including name, endpoints, authentication methods, etc.")>>,
    \* 131: "端点配置": "Endpoint Configuration"
    <<<<"U7AEF", "U70B9", "U914D", "U7F6E">>,
      S("Endpoint Configuration")>>,
    \* 132: "定义 API 端点的路径模板，支持 `{base_url}` 变量替换。": "Defines API endpoint path templates, supporting `{base_url}` variable substitution."
    <<<<"U5B9A", "U4E49">> \o S(" API ") \o <<"U7AEF", "U70B9", "U7684", "U8DEF", "U5F84", "U6A21", "U677F", "UFF0C", "U652F", "U6301">> \o S(" ") \o <<"U0060">> \o S("{base_url}") \o <<"U0060">> \o S(" ") \o <<"U53D8", "U91CF", "U66FF", "U6362", "U3002">>,
      S("Defines API endpoint path templates, supporting ") \o <<"U0060">> \o S("{base_url}") \o <<"U0060">> \o S(" variable substitution.")>>,
    \* 133: "支持变量: `{base_url}`": "Supports variable: `{base_url}`"
    <<<<"U652F", "U6301", "U53D8", "U91CF">> \o S(": ") \o <<"U0060">> \o S("{base_url}") \o <<"U0060">>,
      S("Supports variable: ") \o <<"U0060">> \o S("{base_url}") \o <<"U0060">>>>,
    \* 134: "认证配置": "Authentication Configuration"
    <<<<"U8BA4", "U8BC1", "U914D", "U7F6E">>,
      S("Authentication Configuration")>>,
    \* 135: "定义如何处理 API 认证。": "Defines how to handle API authentication."
    <<<<"U5B9A", "U4E49", "U5982", "U4F55", "U5904", "U7406">> \o S(" API ") \o <<"U8BA4", "U8BC1", "U3002">>,
      S("Defines how to handle API authentication.")>>,
    \* 136: "Create新的可配置协议适配器": "Create new configurable protocol adapter"
    <<S("Create") \o <<"U65B0", "U7684", "U53EF", "U914D", "U7F6E", "U534F", "U8BAE", "U9002", "U914D", "U5668">>,
      S("Create new configurable protocol adapter")>>,
    \* 137: "Create一个使用标准 OpenAI 端点和 Bearer 认证的配置。": "Create a configuration using standard OpenAI endpoints and Bearer authentication."
    <<S("Create") \o <<"U4E00", "U4E2A", "U4F7F", "U7528", "U6807", "U51C6">> \o S(" OpenAI ") \o <<"U7AEF", "U70B9", "U548C">> \o S(" Bearer ") \o <<"U8BA4", "U8BC1", "U7684", "U914D", "U7F6E", "U3002">>,
      S("Create a configuration using standard OpenAI endpoints and Bearer authentication.")>>,
    \* 138: "提供统一的HTTP通信层，支持标准请求和流式请求。": "Provides unified HTTP communication layer, supporting standard and streaming requests."
    <<<<"U63D0", "U4F9B", "U7EDF", "U4E00", "U7684">> \o S("HTTP") \o <<"U901A", "U4FE1", "U5C42", "UFF0C", "U652F", "U6301", "U6807", "U51C6", "U8BF7", "U6C42", "U548C", "U6D41", "U5F0F", "U8BF7", "U6C42", "U3002">>,
      S("Provides unified HTTP communication layer, supporting standard and streaming requests.")>>,
    \* 139: "封装了HTTP通信的所有细节，包括认证、超时、代理等配置。": "Encapsulates all HTTP communication details, including authentication, timeout, proxy configuration, etc."
    <<<<"U5C01", "U88C5", "U4E86">> \o S("HTTP") \o <<"U901A", "U4FE1", "U7684", "U6240", "U6709", "U7EC6", "U8282", "UFF0C", "U5305", "U62EC", "U8BA4", "U8BC1", "U3001", "U8D85", "U65F6", "U3001", "U4EE3", "U7406", "U7B49", "U914D", "U7F6E", "U3002">>,
      S("Encapsulates all HTTP communication details, including authentication, timeout, proxy configuration, etc.")>>,
    \* 142: "支持": "Support"
    <<<<"U652F", "U6301">>,
      S("Support")>>,
    \* 143: "包含": "Contains"
    <<<<"U5305", "U542B">>,
      S("Contains")>>,
    \* 144: "定义": "Define"
    <<<<"U5B9A", "U4E49">>,
      S("Define")>>,
    \* 145: "提供": "Provide"
    <<<<"U63D0", "U4F9B">>,
      S("Provide")>>,
    \* 146: "使用": "Use"
    <<<<"U4F7F", "U7528">>,
      S("Use")>>,
    \* 147: "通过": "Through"
    <<<<"U901A", "U8FC7">>,
      S("Through")>>,
    \* 148: "包括": "Including"
    <<<<"U5305", "U62EC">>,
      S("Including")>>,
    \* 149: "等": "etc."
    <<<<"U7B49">>,
      S("etc.")>>,
    \* 152: "协议名称": "Protocol name"
    <<<<"U534F", "U8BAE", "U540D", "U79F0">>,
      S("Protocol name")>>,
    \* 153: "模型列表端点模板（可选）": "Model list endpoint template (optional)"
    <<<<"U6A21", "U578B", "U5217", "U8868", "U7AEF", "U70B9", "U6A21", "U677F", "UFF08", "U53EF", "U9009", "UFF09">>,
      S("Model list endpoint template (optional)")>>,
    \* 154: "基础协议实例": "Base protocol instance"
    <<<<"U57FA", "U7840", "U534F", "U8BAE", "U5B9E", "U4F8B">>,
      S("Base protocol instance")>>,
    \* 155: "便捷构造器 - OpenAI 兼容协议": "Convenience constructor - OpenAI compatible protocol"
    <<<<"U4FBF", "U6377", "U6784", "U9020", "U5668">> \o S(" - OpenAI ") \o <<"U517C", "U5BB9", "U534F", "U8BAE">>,
      S("Convenience constructor - OpenAI compatible protocol")>>,
    \* 156: "从内部协议提取 token": "Extract token from internal protocol"
    <<<<"U4ECE", "U5185", "U90E8", "U534F", "U8BAE", "U63D0", "U53D6">> \o S(" token"),
      S("Extract token from internal protocol")>>,
    \* 157: "这是一个辅助方法，用于从内部协议的认证头中提取 token。": "This is a helper method to extract token from the internal protocol's authentication headers."
    <<<<"U8FD9", "U662F", "U4E00", "U4E2A", "U8F85", "U52A9", "U65B9", "U6CD5", "UFF0C", "U7528", "U4E8E", "U4ECE", "U5185", "U90E8", "U534F", "U8BAE", "U7684", "U8BA4", "U8BC1", "U5934", "U4E2D", "U63D0", "U53D6">> \o S(" token") \o <<"U3002">>,
      S("This is a helper method to extract token from the internal protocol's authentication headers.")>>,
    \* 158: "HTTP客户端实现 - V2架构": "HTTP Client Implementation - V2 Architecture"
    <<S("HTTP") \o <<"U5BA2", "U6237", "U7AEF", "U5B9E", "U73B0">> \o S(" - V2") \o <<"U67B6", "U6784">>,
      S("HTTP Client Implementation - V2 Architecture")>>,
    \* 159: "HTTP客户端": "HTTP Client"
    <<S("HTTP") \o <<"U5BA2", "U6237", "U7AEF">>,
      S("HTTP Client")>>,
    \* 160: "Create新的HTTP客户端": "Create new HTTP client"
    <<S("Create") \o <<"U65B0", "U7684">> \o S("HTTP") \o <<"U5BA2", "U6237", "U7AEF">>,
      S("Create new HTTP client")>>,
    \* 161: "Create带有自Define配置的HTTP客户端": "Create HTTP client with custom configuration"
    <<S("Create") \o <<"U5E26", "U6709", "U81EA">> \o S("Define") \o <<"U914D", "U7F6E", "U7684">> \o S("HTTP") \o <<"U5BA2", "U6237", "U7AEF">>,
      S("Create HTTP client with custom configuration")>>,
    \* 162: "添加请求头": "Add request headers"
    <<<<"U6DFB", "U52A0", "U8BF7", "U6C42", "U5934">>,
      S("Add request headers")>>,
    \* 163: "添加单个请求头": "Add single request header"
    <<<<"U6DFB", "U52A0", "U5355", "U4E2A", "U8BF7", "U6C42", "U5934">>,
      S("Add single request header")>>,
    \* 164: "发送GET请求": "Send GET request"
    <<<<"U53D1", "U9001">> \o S("GET") \o <<"U8BF7", "U6C42">>,
      S("Send GET request")>>,
    \* 165: "添加所有配置的请求头": "Add all configured request headers"
    <<<<"U6DFB", "U52A0", "U6240", "U6709", "U914D", "U7F6E", "U7684", "U8BF7", "U6C42", "U5934">>,
      S("Add all configured request headers")>>,
    \* 166: "发送POST请求": "Send POST request"
    <<<<"U53D1", "U9001">> \o S("POST") \o <<"U8BF7", "U6C42">>,
      S("Send POST request")>>,
    \* 167: "发送流式POST请求": "Send streaming POST request"
    <<<<"U53D1", "U9001", "U6D41", "U5F0F">> \o S("POST") \o <<"U8BF7", "U6C42">>,
      S("Send streaming POST request")>>,
    \* 168: "发送带有自Define头的POST请求": "Send POST request with custom headers"
    <<<<"U53D1", "U9001", "U5E26", "U6709", "U81EA">> \o S("Define") \o <<"U5934", "U7684">> \o S("POST") \o <<"U8BF7", "U6C42">>,
      S("Send POST request with custom headers")>>,
    \* 169: "再添加配置的请求头 (可能会覆盖自Define头)": "Then add configured headers (may override custom headers)"
    <<<<"U518D", "U6DFB", "U52A0", "U914D", "U7F6E", "U7684", "U8BF7", "U6C42", "U5934">> \o S(" (") \o <<"U53EF", "U80FD", "U4F1A", "U8986", "U76D6", "U81EA">> \o S("Define") \o <<"U5934">> \o S(")"),
      S("Then add configured headers (may override custom headers)")>>,
    \* 170: "HTTP客户端实现": "HTTP client implementation"
    <<S("HTTP") \o <<"U5BA2", "U6237", "U7AEF", "U5B9E", "U73B0">>,
      S("HTTP client implementation")>>,
    \* 171: "协议trait - Define纯API规范": "Protocol trait - Defines pure API specification"
    <<<<"U534F", "U8BAE">> \o S("trait - Define") \o <<"U7EAF">> \o S("API") \o <<"U89C4", "U8303">>,
      S("Protocol trait - Defines pure API specification")>>,
    \* 172: "这个trait代表一个LLM API的协议规范，如OpenAI API、Anthropic APIetc.。": "This trait represents an LLM API protocol specification, such as OpenAI API, Anthropic API, etc."
    <<<<"U8FD9", "U4E2A">> \o S("trait") \o <<"U4EE3", "U8868", "U4E00", "U4E2A">> \o S("LLM API") \o <<"U7684", "U534F", "U8BAE", "U89C4", "U8303", "UFF0C", "U5982">> \o S("OpenAI API") \o <<"U3001">> \o S("Anthropic APIetc.") \o <<"U3002">>,
      S("This trait represents an LLM API protocol specification, such as OpenAI API, Anthropic API, etc.")>>,
    \* 173: "协议特定的请求类型": "Protocol-specific request type"
    <<<<"U534F", "U8BAE", "U7279", "U5B9A", "U7684", "U8BF7", "U6C42", "U7C7B", "U578B">>,
      S("Protocol-specific request type")>>,
    \* 174: "协议特定的响应类型": "Protocol-specific response type"
    <<<<"U534F", "U8BAE", "U7279", "U5B9A", "U7684", "U54CD", "U5E94", "U7C7B", "U578B">>,
      S("Protocol-specific response type")>>,
    \* 175: "协议名称 (如 "openai", "anthropic")": "Protocol name (e.g., "openai", "anthropic")"
    <<<<"U534F", "U8BAE", "U540D", "U79F0">> \o S(" (") \o <<"U5982">> \o S(" \"openai\", \"anthropic\")"),
      S("Protocol name (e.g., \"openai\", \"anthropic\")")>>,
    \* 176: "Get模型列表的端点URL (可选)": "Get model list endpoint URL (optional)"
    <<S("Get") \o <<"U6A21", "U578B", "U5217", "U8868", "U7684", "U7AEF", "U70B9">> \o S("URL (") \o <<"U53EF", "U9009">> \o S(")"),
      S("Get model list endpoint URL (optional)")>>,
    \* 177: "Build协议特定的请求": "Build protocol-specific request"
    <<S("Build") \o <<"U534F", "U8BAE", "U7279", "U5B9A", "U7684", "U8BF7", "U6C42">>,
      S("Build protocol-specific request")>>,
    \* 178: "Parse协议特定的响应": "Parse protocol-specific response"
    <<S("Parse") \o <<"U534F", "U8BAE", "U7279", "U5B9A", "U7684", "U54CD", "U5E94">>,
      S("Parse protocol-specific response")>>,
    \* 179: "Parse模型列表响应": "Parse model list response"
    <<S("Parse") \o <<"U6A21", "U578B", "U5217", "U8868", "U54CD", "U5E94">>,
      S("Parse model list response")>>,
    \* 180: "Parse流式响应 (可选)": "Parse streaming response (optional)"
    <<S("Parse") \o <<"U6D41", "U5F0F", "U54CD", "U5E94">> \o S(" (") \o <<"U53EF", "U9009">> \o S(")"),
      S("Parse streaming response (optional)")>>,
    \* 181: "流式聊天完成": "Streaming chat completion"
    <<<<"U6D41", "U5F0F", "U804A", "U5929", "U5B8C", "U6210">>,
      S("Streaming chat completion")>>,
    \* 182: "Get协议引用": "Get protocol reference"
    <<S("Get") \o <<"U534F", "U8BAE", "U5F15", "U7528">>,
      S("Get protocol reference")>>,
    \* 183: "Get客户端引用": "Get client reference"
    <<S("Get") \o <<"U5BA2", "U6237", "U7AEF", "U5F15", "U7528">>,
      S("Get client reference")>>,
    \* 184: "Parse响应": "Parse response"
    <<S("Parse") \o <<"U54CD", "U5E94">>,
      S("Parse response")>>,
    \* 185: "Provide链式调用的 API 来Build Provider，统一处理所有配置项。": "Provides fluent API to build Provider, handling all configuration items uniformly."
    <<S("Provide") \o <<"U94FE", "U5F0F", "U8C03", "U7528", "U7684">> \o S(" API ") \o <<"U6765">> \o S("Build Provider") \o <<"UFF0C", "U7EDF", "U4E00", "U5904", "U7406", "U6240", "U6709", "U914D", "U7F6E", "U9879", "U3002">>,
      S("Provides fluent API to build Provider, handling all configuration items uniformly.")>>,
    \* 186: "协议实例": "Protocol instance"
    <<<<"U534F", "U8BAE", "U5B9E", "U4F8B">>,
      S("Protocol instance")>>,
    \* 187: "注意：这些头部会与协议的认证头部合并。": "Note: These headers will be merged with the protocol's authentication headers."
    <<<<"U6CE8", "U610F", "UFF1A", "U8FD9", "U4E9B", "U5934", "U90E8", "U4F1A", "U4E0E", "U534F", "U8BAE", "U7684", "U8BA4", "U8BC1", "U5934", "U90E8", "U5408", "U5E76", "U3002">>,
      S("Note: These headers will be merged with the protocol's authentication headers.")>>,
    \* 188: "配置好的 GenericProvider 实例": "Configured GenericProvider instance"
    <<<<"U914D", "U7F6E", "U597D", "U7684">> \o S(" GenericProvider ") \o <<"U5B9E", "U4F8B">>,
      S("Configured GenericProvider instance")>>,
    \* 189: "如果 HTTP 客户端Create失败，ReturnsErrors": "Returns error if HTTP client creation fails"
    <<<<"U5982", "U679C">> \o S(" HTTP ") \o <<"U5BA2", "U6237", "U7AEF">> \o S("Create") \o <<"U5931", "U8D25", "UFF0C">> \o S("ReturnsErrors"),
      S("Returns error if HTTP client creation fails")>>,
    \* 190: "Create HTTP 客户端": "Create HTTP client"
    <<S("Create HTTP ") \o <<"U5BA2", "U6237", "U7AEF">>,
      S("Create HTTP client")>>,
    \* 191: "CreateAliyun DashScope客户端": "Create Aliyun DashScope client"
    <<S("CreateAliyun DashScope") \o <<"U5BA2", "U6237", "U7AEF">>,
      S("Create Aliyun DashScope client")>>,
    \* 192: "CreateZhipu GLM客户端": "Create Zhipu GLM client"
    <<S("CreateZhipu GLM") \o <<"U5BA2", "U6237", "U7AEF">>,
      S("Create Zhipu GLM client")>>,
    \* 193: "CreateZhipu GLM客户端 (OpenAI兼容模式)": "Create Zhipu GLM client (OpenAI compatible mode)"
    <<S("CreateZhipu GLM") \o <<"U5BA2", "U6237", "U7AEF">> \o S(" (OpenAI") \o <<"U517C", "U5BB9", "U6A21", "U5F0F">> \o S(")"),
      S("Create Zhipu GLM client (OpenAI compatible mode)")>>,
    \* 194: "CreateVolcengine（Volcengine）客户端": "Create Volcengine client"
    <<S("CreateVolcengine") \o <<"UFF08">> \o S("Volcengine") \o <<"UFF09", "U5BA2", "U6237", "U7AEF">>,
      S("Create Volcengine client")>>,
    \* 195: "Create带有自Define配置的Volcengine客户端": "Create Volcengine client with custom configuration"
    <<S("Create") \o <<"U5E26", "U6709", "U81EA">> \o S("Define") \o <<"U914D", "U7F6E", "U7684">> \o S("Volcengine") \o <<"U5BA2", "U6237", "U7AEF">>,
      S("Create Volcengine client with custom configuration")>>,
    \* 196: "CreateTencent Hunyuan（Tencent Hunyuan）客户端": "Create Tencent Hunyuan client"
    <<S("CreateTencent Hunyuan") \o <<"UFF08">> \o S("Tencent Hunyuan") \o <<"UFF09", "U5BA2", "U6237", "U7AEF">>,
      S("Create Tencent Hunyuan client")>>,
    \* 199: "模型": "model"
    <<<<"U6A21", "U578B">>,
      S("model")>>,
    \* 200: "配置": "configuration"
    <<<<"U914D", "U7F6E">>,
      S("configuration")>>,
    \* 201: "客户端": "client"
    <<<<"U5BA2", "U6237", "U7AEF">>,
      S("client")>>,
    \* 202: "协议": "protocol"
    <<<<"U534F", "U8BAE">>,
      S("protocol")>>,
    \* 203: "适配器": "adapter"
    <<<<"U9002", "U914D", "U5668">>,
      S("adapter")>>,
    \* 204: "提供商": "provider"
    <<<<"U63D0", "U4F9B", "U5546">>,
      S("provider")>>,
    \* 205: "请求": "request"
    <<<<"U8BF7", "U6C42">>,
      S("request")>>,
    \* 206: "响应": "response"
    <<<<"U54CD", "U5E94">>,
      S("response")>>,
    \* 207: "流式": "streaming"
    <<<<"U6D41", "U5F0F">>,
      S("streaming")>>,
    \* 208: "工具": "tool"
    <<<<"U5DE5", "U5177">>,
      S("tool")>>,
    \* 209: "函数": "function"
    <<<<"U51FD", "U6570">>,
      S("function")>>,
    \* 210: "调用": "call"
    <<<<"U8C03", "U7528">>,
      S("call")>>,
    \* 211: "端点": "endpoint"
    <<<<"U7AEF", "U70B9">>,
      S("endpoint")>>,
    \* 212: "认证": "authentication"
    <<<<"U8BA4", "U8BC1">>,
      S("authentication")>>,
    \* 213: "头部": "headers"
    <<<<"U5934", "U90E8">>,
      S("headers")>>,
    \* 214: "实例": "instance"
    <<<<"U5B9E", "U4F8B">>,
      S("instance")>>,
    \* 215: "方法": "method"
    <<<<"U65B9", "U6CD5">>,
      S("method")>>,
    \* 216: "辅助": "helper"
    <<<<"U8F85", "U52A9">>,
      S("helper")>>,
    \* 217: "构造器": "constructor"
    <<<<"U6784", "U9020", "U5668">>,
      S("constructor")>>,
    \* 218: "便捷": "convenience"
    <<<<"U4FBF", "U6377">>,
      S("convenience")>>,
    \* 219: "自Define": "custom"
    <<<<"U81EA">> \o S("Define"),
      S("custom")>>,
    \* 220: "自定义": "custom"
    <<<<"U81EA", "U5B9A", "U4E49">>,
      S("custom")>>,
    \* 221: "可选": "optional"
    <<<<"U53EF", "U9009">>,
      S("optional")>>,
    \* 222: "注意": "Note"
    <<<<"U6CE8", "U610F">>,
      S("Note")>>,
    \* 223: "如果": "if"
    <<<<"U5982", "U679C">>,
      S("if")>>,
    \* 224: "失败": "fails"
    <<<<"U5931", "U8D25">>,
      S("fails")>>,
    \* 225: "成功": "success"
    <<<<"U6210", "U529F">>,
      S("success")>>,
    \* 226: "错误": "error"
    <<<<"U9519", "U8BEF">>,
      S("error")>>,
    \* 227: "返回": "return"
    <<<<"U8FD4", "U56DE">>,
      S("return")>>,
    \* 228: "等。": "etc."
    <<<<"U7B49", "U3002">>,
      S("etc.")>>,
    \* 229: "如": "such as"
    <<<<"U5982">>,
      S("such as")>>,
    \* 230: "例如": "e.g."
    <<<<"U4F8B", "U5982">>,
      S("e.g.")>>,
    \* 231: "或": "or"
    <<<<"U6216">>,
      S("or")>>,
    \* 232: "和": "and"
    <<<<"U548C">>,
      S("and")>>,
    \* 233: "的": ""
    <<<<"U7684">>,
      <<>>>>,
    \* 234: "了": ""
    <<<<"U4E86">>,
      <<>>>>,
    \* 235: "与": "with"
    <<<<"U4E0E">>,
      S("with")>>,
    \* 236: "为": "as"
    <<<<"U4E3A">>,
      S("as")>>,
    \* 237: "是": "is"
    <<<<"U662F">>,
      S("is")>>,
    \* 238: "在": "in"
    <<<<"U5728">>,
      S("in")>>,
    \* 239: "从": "from"
    <<<<"U4ECE">>,
      S("from")>>,
    \* 240: "到": "to"
    <<<<"U5230">>,
      S("to")>>,
    \* 241: "会": "will"
    <<<<"U4F1A">>,
      S("will")>>,
    \* 242: "可能": "may"
    <<<<"U53EF", "U80FD">>,
      S("may")>>,
    \* 243: "所有": "all"
    <<<<"U6240", "U6709">>,
      S("all")>>,
    \* 244: "这个": "this"
    <<<<"U8FD9", "U4E2A">>,
      S("this")>>,
    \* 245: "这些": "these"
    <<<<"U8FD9", "U4E9B">>,
      S("these")>>,
    \* 246: "一个": "a"
    <<<<"U4E00", "U4E2A">>,
      S("a")>>,
    \* 247: "用于": "for"
    <<<<"U7528", "U4E8E">>,
      S("for")>>,
    \* 248: "来": "to"
    <<<<"U6765">>,
      S("to")>>,
    \* 251: "消息内容块Define": "Message Content Block Definition"
    <<<<"U6D88", "U606F", "U5185", "U5BB9", "U5757">> \o S("Define"),
      S("Message Content Block Definition")>>,
    \* 252: "消息内容块": "Message Content Block"
    <<<<"U6D88", "U606F", "U5185", "U5BB9", "U5757">>,
      S("Message Content Block")>>,
    \* 253: "文本块": "Text block"
    <<<<"U6587", "U672C", "U5757">>,
      S("Text block")>>,
    \* 254: "图片块（Base64）": "Image block (Base64)"
    <<<<"U56FE", "U7247", "U5757", "UFF08">> \o S("Base64") \o <<"UFF09">>,
      S("Image block (Base64)")>>,
    \* 255: "图片块（URL）": "Image block (URL)"
    <<<<"U56FE", "U7247", "U5757", "UFF08">> \o S("URL") \o <<"UFF09">>,
      S("Image block (URL)")>>,
    \* 256: "图片块（Anthropic 格式）": "Image block (Anthropic format)"
    <<<<"U56FE", "U7247", "U5757", "UFF08">> \o S("Anthropic ") \o <<"U683C", "U5F0F", "UFF09">>,
      S("Image block (Anthropic format)")>>,
    \* 257: "图片 URL 块（OpenAI 格式）": "Image URL block (OpenAI format)"
    <<<<"U56FE", "U7247">> \o S(" URL ") \o <<"U5757", "UFF08">> \o S("OpenAI ") \o <<"U683C", "U5F0F", "UFF09">>,
      S("Image URL block (OpenAI format)")>>,
    \* 258: "Create文本块": "Create text block"
    <<S("Create") \o <<"U6587", "U672C", "U5757">>,
      S("Create text block")>>,
    \* 259: "Create Base64 图片块（Anthropic 格式）": "Create Base64 image block (Anthropic format)"
    <<S("Create Base64 ") \o <<"U56FE", "U7247", "U5757", "UFF08">> \o S("Anthropic ") \o <<"U683C", "U5F0F", "UFF09">>,
      S("Create Base64 image block (Anthropic format)")>>,
    \* 260: "媒体类型，such as "image/jpeg", "image/png"": "Media type, such as "image/jpeg", "image/png""
    <<<<"U5A92", "U4F53", "U7C7B", "U578B", "UFF0C">> \o S("such as \"image/jpeg\", \"image/png\""),
      S("Media type, such as \"image/jpeg\", \"image/png\"")>>,
    \* 261: "Base64 编码图片数据": "Base64 encoded image data"
    <<S("Base64 ") \o <<"U7F16", "U7801", "U56FE", "U7247", "U6570", "U636E">>,
      S("Base64 encoded image data")>>,
    \* 262: "Create图片 URL 块（Anthropic 格式）": "Create image URL block (Anthropic format)"
    <<S("Create") \o <<"U56FE", "U7247">> \o S(" URL ") \o <<"U5757", "UFF08">> \o S("Anthropic ") \o <<"U683C", "U5F0F", "UFF09">>,
      S("Create image URL block (Anthropic format)")>>,
    \* 263: "Create图片 URL 块（OpenAI 格式）": "Create image URL block (OpenAI format)"
    <<S("Create") \o <<"U56FE", "U7247">> \o S(" URL ") \o <<"U5757", "UFF08">> \o S("OpenAI ") \o <<"U683C", "U5F0F", "UFF09">>,
      S("Create image URL block (OpenAI format)")>>,
    \* 264: "Create图片 URL 块（OpenAI 格式，带 detail Parameters）": "Create image URL block (OpenAI format, with detail parameter)"
    <<S("Create") \o <<"U56FE", "U7247">> \o S(" URL ") \o <<"U5757", "UFF08">> \o S("OpenAI ") \o <<"U683C", "U5F0F", "UFF0C", "U5E26">> \o S(" detail Parameters") \o <<"UFF09">>,
      S("Create image URL block (OpenAI format, with detail parameter)")>>,
    \* 265: "图片 URL": "Image URL"
    <<<<"U56FE", "U7247">> \o S(" URL"),
      S("Image URL")>>,
    \* 266: "图片细节级别，optional值: "auto", "low", "high"": "Image detail level, optional values: "auto", "low", "high""
    <<<<"U56FE", "U7247", "U7EC6", "U8282", "U7EA7", "U522B", "UFF0C">> \o S("optional") \o <<"U503C">> \o S(": \"auto\", \"low\", \"high\""),
      S("Image detail level, optional values: \"auto\", \"low\", \"high\"")>>,
    \* 267: "Get文本内容（ifis文本块）": "Get text content (if is text block)"
    <<S("Get") \o <<"U6587", "U672C", "U5185", "U5BB9", "UFF08">> \o S("ifis") \o <<"U6587", "U672C", "U5757", "UFF09">>,
      S("Get text content (if is text block)")>>,
    \* 268: "判断is否as文本块": "Check if is text block"
    <<<<"U5224", "U65AD">> \o S("is") \o <<"U5426">> \o S("as") \o <<"U6587", "U672C", "U5757">>,
      S("Check if is text block")>>,
    \* 269: "判断is否as图片块": "Check if is image block"
    <<<<"U5224", "U65AD">> \o S("is") \o <<"U5426">> \o S("as") \o <<"U56FE", "U7247", "U5757">>,
      S("Check if is image block")>>,
    \* 270: "图片to源（Anthropic 格式）": "Image source (Anthropic format)"
    <<<<"U56FE", "U7247">> \o S("to") \o <<"U6E90", "UFF08">> \o S("Anthropic ") \o <<"U683C", "U5F0F", "UFF09">>,
      S("Image source (Anthropic format)")>>,
    \* 271: "Base64 编码图片": "Base64 encoded image"
    <<S("Base64 ") \o <<"U7F16", "U7801", "U56FE", "U7247">>,
      S("Base64 encoded image")>>,
    \* 272: "媒体类型，such as "image/jpeg", "image/png"": "Media type, such as "image/jpeg", "image/png""
    <<<<"U5A92", "U4F53", "U7C7B", "U578B", "UFF0C">> \o S("such as \"image/jpeg\", \"image/png\""),
      S("Media type, such as \"image/jpeg\", \"image/png\"")>>,
    \* 273: "图片 URL": "Image URL"
    <<<<"U56FE", "U7247">> \o S(" URL"),
      S("Image URL")>>,
    \* 274: "图片细节级别": "Image detail level"
    <<<<"U56FE", "U7247", "U7EC6", "U8282", "U7EA7", "U522B">>,
      S("Image detail level")>>,
    \* 275: "optional值: "auto", "low", "high"": "Optional values: "auto", "low", "high""
    <<S("optional") \o <<"U503C">> \o S(": \"auto\", \"low\", \"high\""),
      S("Optional values: \"auto\", \"low\", \"high\"")>>,
    \* 276: "Provider-specific reasoning content (GLM 风格)": "Provider-specific reasoning content (GLM style)"
    <<S("Provider-specific reasoning content (GLM ") \o <<"U98CE", "U683C">> \o S(")"),
      S("Provider-specific reasoning content (GLM style)")>>,
    \* 277: "Provider-specific reasoning (Qwen/DeepSeek/OpenAI o1 通用键)": "Provider-specific reasoning (Qwen/DeepSeek/OpenAI o1 common key)"
    <<S("Provider-specific reasoning (Qwen/DeepSeek/OpenAI o1 ") \o <<"U901A", "U7528", "U952E">> \o S(")"),
      S("Provider-specific reasoning (Qwen/DeepSeek/OpenAI o1 common key)")>>,
    \* 278: "Provider-specific thought (OpenAI o1 键)": "Provider-specific thought (OpenAI o1 key)"
    <<S("Provider-specific thought (OpenAI o1 ") \o <<"U952E">> \o S(")"),
      S("Provider-specific thought (OpenAI o1 key)")>>,
    \* 279: "Provider-specific thinking (Anthropic 键)": "Provider-specific thinking (Anthropic key)"
    <<S("Provider-specific thinking (Anthropic ") \o <<"U952E">> \o S(")"),
      S("Provider-specific thinking (Anthropic key)")>>,
    \* 280: "Reasoning (Qwen/DeepSeek/OpenAI o1 通用键)": "Reasoning (Qwen/DeepSeek/OpenAI o1 common key)"
    <<S("Reasoning (Qwen/DeepSeek/OpenAI o1 ") \o <<"U901A", "U7528", "U952E">> \o S(")"),
      S("Reasoning (Qwen/DeepSeek/OpenAI o1 common key)")>>,
    \* 281: "Thought (OpenAI o1 键)": "Thought (OpenAI o1 key)"
    <<S("Thought (OpenAI o1 ") \o <<"U952E">> \o S(")"),
      S("Thought (OpenAI o1 key)")>>,
    \* 282: "Thinking (Anthropic 键)": "Thinking (Anthropic key)"
    <<S("Thinking (Anthropic ") \o <<"U952E">> \o S(")"),
      S("Thinking (Anthropic key)")>>,
    \* 283: "避免as每个 Provider 编写重复样板代码。": "Avoids writing repetitive boilerplate code for each Provider."
    <<<<"U907F", "U514D">> \o S("as") \o <<"U6BCF", "U4E2A">> \o S(" Provider ") \o <<"U7F16", "U5199", "U91CD", "U590D", "U6837", "U677F", "U4EE3", "U7801", "U3002">>,
      S("Avoids writing repetitive boilerplate code for each Provider.")>>,
    \* 284: "额外静态headers": "Additional static headers"
    <<<<"U989D", "U5916", "U9759", "U6001">> \o S("headers"),
      S("Additional static headers")>>,
    \* 285: "聊天endpoint模板": "Chat endpoint template"
    <<<<"U804A", "U5929">> \o S("endpoint") \o <<"U6A21", "U677F">>,
      S("Chat endpoint template")>>,
    \* 286: "例such as: `"{base_url}/v1/chat/completions"`": "Example: `"{base_url}/v1/chat/completions"`"
    <<<<"U4F8B">> \o S("such as: ") \o <<"U0060">> \o S("\"{base_url}/v1/chat/completions\"") \o <<"U0060">>,
      S("Example: ") \o <<"U0060">> \o S("\"{base_url}/v1/chat/completions\"") \o <<"U0060">>>>,
    \* 287: "例such as: `"{base_url}/v1/models"`": "Example: `"{base_url}/v1/models"`"
    <<<<"U4F8B">> \o S("such as: ") \o <<"U0060">> \o S("\"{base_url}/v1/models\"") \o <<"U0060">>,
      S("Example: ") \o <<"U0060">> \o S("\"{base_url}/v1/models\"") \o <<"U0060">>>>,
    \* 288: "生成: `Authorization: Bearer {token}`": "Generates: `Authorization: Bearer {token}`"
    <<<<"U751F", "U6210">> \o S(": ") \o <<"U0060">> \o S("Authorization: Bearer {token}") \o <<"U0060">>,
      S("Generates: ") \o <<"U0060">> \o S("Authorization: Bearer {token}") \o <<"U0060">>>>,
    \* 289: "生成: `{header_name}: {token}`": "Generates: `{header_name}: {token}`"
    <<<<"U751F", "U6210">> \o S(": ") \o <<"U0060">> \o S("{header_name}: {token}") \o <<"U0060">>,
      S("Generates: ") \o <<"U0060">> \o S("{header_name}: {token}") \o <<"U0060">>>>,
    \* 290: "Header 名称": "Header name"
    <<S("Header ") \o <<"U540D", "U79F0">>,
      S("Header name")>>,
    \* 291: "无authentication": "No authentication"
    <<<<"U65E0">> \o S("authentication"),
      S("No authentication")>>,
    \* 292: "customauthentication（Through闭包）": "Custom authentication (through closure)"
    <<S("customauthentication") \o <<"UFF08">> \o S("Through") \o <<"U95ED", "U5305", "UFF09">>,
      S("Custom authentication (through closure)")>>,
    \* 293: "闭包接收 token，Returnsheaders列表": "Closure receives token, returns headers list"
    <<<<"U95ED", "U5305", "U63A5", "U6536">> \o S(" token") \o <<"UFF0C">> \o S("Returnsheaders") \o <<"U5217", "U8868">>,
      S("Closure receives token, returns headers list")>>,
    \* 296: "我is豆包": "I am Doubao"
    <<<<"U6211">> \o S("is") \o <<"U8C46", "U5305">>,
      S("I am Doubao")>>,
    \* 297: "风格": "style"
    <<<<"U98CE", "U683C">>,
      S("style")>>,
    \* 298: "通用键": "common key"
    <<<<"U901A", "U7528", "U952E">>,
      S("common key")>>,
    \* 299: "键": "key"
    <<<<"U952E">>,
      S("key")>>,
    \* 300: "as": "as"
    <<S("as"),
      S("as")>>,
    \* 301: "is": "is"
    <<S("is"),
      S("is")>>,
    \* 302: "if": "if"
    <<S("if"),
      S("if")>>,
    \* 303: "to": "to"
    <<S("to"),
      S("to")>>,
    \* 304: "such as": "such as"
    <<S("such as"),
      S("such as")>>,
    \* 305: "例": "Example"
    <<<<"U4F8B">>,
      S("Example")>>,
    \* 306: "such as": "such as"
    <<S("such as"),
      S("such as")>>,
    \* 307: "编码": "encoded"
    <<<<"U7F16", "U7801">>,
      S("encoded")>>,
    \* 308: "数据": "data"
    <<<<"U6570", "U636E">>,
      S("data")>>,
    \* 309: "内容": "content"
    <<<<"U5185", "U5BB9">>,
      S("content")>>,
    \* 310: "判断": "Check"
    <<<<"U5224", "U65AD">>,
      S("Check")>>,
    \* 311: "否": "if"
    <<<<"U5426">>,
      S("if")>>,
    \* 312: "源": "source"
    <<<<"U6E90">>,
      S("source")>>,
    \* 313: "级别": "level"
    <<<<"U7EA7", "U522B">>,
      S("level")>>,
    \* 314: "值": "values"
    <<<<"U503C">>,
      S("values")>>,
    \* 315: "额外": "Additional"
    <<<<"U989D", "U5916">>,
      S("Additional")>>,
    \* 316: "静态": "static"
    <<<<"U9759", "U6001">>,
      S("static")>>,
    \* 317: "模板": "template"
    <<<<"U6A21", "U677F">>,
      S("template")>>,
    \* 318: "生成": "Generates"
    <<<<"U751F", "U6210">>,
      S("Generates")>>,
    \* 319: "名称": "name"
    <<<<"U540D", "U79F0">>,
      S("name")>>,
    \* 320: "无": "No"
    <<<<"U65E0">>,
      S("No")>>,
    \* 321: "接收": "receives"
    <<<<"U63A5", "U6536">>,
      S("receives")>>,
    \* 322: "列表": "list"
    <<<<"U5217", "U8868">>,
      S("list")>>,
    \* 323: "避免": "Avoids"
    <<<<"U907F", "U514D">>,
      S("Avoids")>>,
    \* 324: "每个": "each"
    <<<<"U6BCF", "U4E2A">>,
      S("each")>>,
    \* 325: "编写": "writing"
    <<<<"U7F16", "U5199">>,
      S("writing")>>,
    \* 326: "重复": "repetitive"
    <<<<"U91CD", "U590D">>,
      S("repetitive")>>,
    \* 327: "样板": "boilerplate"
    <<<<"U6837", "U677F">>,
      S("boilerplate")>>,
    \* 328: "代码": "code"
    <<<<"U4EE3", "U7801">>,
      S("code")>>
>>

TRANSLATIONS == dict_display(TRANSLATIONS_items)

\* One turn of the loop of translate_line: entry k applied to the line.
translate_entry(tbl, k, ln) ==
    IF str_contains(tbl[k][1], ln)
    THEN str_replace(ln, tbl[k][1], tbl[k][2])
    ELSE ln

\* The loop of translate_line over the entries lo..hi of a table, in table
\* order.  The range is halved and the first half is evaluated (the test on
\* its length) before the second half starts, to keep the evaluation shallow.
RECURSIVE translate_line_from(_, _, _, _)
translate_line_from(tbl, lo, hi, ln) ==
    IF lo > hi THEN ln
    ELSE IF lo = hi THEN translate_entry(tbl, lo, ln)
    ELSE LET mid == (lo + hi) \div 2
             half == translate_line_from(tbl, lo, mid, ln)
         IN IF Len(half) >= 0
            THEN translate_line_from(tbl, mid + 1, hi, half)
            ELSE half

\* Variant of translate_line_with: the entries taken last to first.
translate_line_reversed(tbl, ln) ==
    translate_line_from([k \in DOMAIN tbl |-> tbl[Len(tbl) + 1 - k]],
                        1, Len(tbl), ln)

\* translate_line with the table it reads made explicit.
translate_line_with(tbl, ln) == translate_line_from(tbl, 1, Len(tbl), ln)

translate_line(ln) == translate_line_with(TRANSLATIONS, ln)

\* [translate_line(line) for line in lines]
translate_lines(lines) == [i \in DOMAIN lines |-> translate_line(lines[i])]

\* The content translate_file computes from the content it read.
translated_content(text) ==
    str_join(<<"\n">>, translate_lines(str_split(text, <<"\n">>)))

-----------------------------------------------------------------------------
(* fix_message_construction.py: the regular expressions.  A pattern is the *)
(* sequence of its elements: a literal, \s*, (\w+) or ([^"]+); the last    *)
(* two capture a group.                                                    *)

Lit(str)  == [kind |-> "lit", text |-> S(str)]
Spaces    == [kind |-> "spaces", text |-> <<>>]       \* \s*
Word      == [kind |-> "word", text |-> <<>>]         \* (\w+)
NotQuote  == [kind |-> "notquote", text |-> <<>>]     \* ([^"]+)

\* A replacement template: literal text and group references \n.
Txt(str)  == [group |-> 0, text |-> S(str)]
Grp(n)    == [group |-> n, text |-> <<>>]

\* The characters a text holds as themselves: code points 32..95 and
\* 97..126, and the escapes \t \n \f \r. Every other character is held by
\* name, "U" and the hexadecimal code point.
AsciiLow ==
    S(" !\"#$%&'()*+,-./0123456789:;<=>?@ABCDEFGHIJKLMNOPQRSTUVWXYZ[\\]^_")

AsciiHigh == S("abcdefghijklmnopqrstuvwxyz{|}~")

index_of(seq, c) == CHOOSE i \in DOMAIN seq : seq[i] = c

ord_table ==
    LET low  == {AsciiLow[i] : i \in DOMAIN AsciiLow}
        high == {AsciiHigh[i] : i \in DOMAIN AsciiHigh}
    IN [c \in low \cup high \cup {"\t", "\n", "\f", "\r"} |->
           CASE c = "\t" -> 9
             [] c = "\n" -> 10
             [] c = "\f" -> 12
             [] c = "\r" -> 13
             [] c \in low -> 31 + index_of(AsciiLow, c)
             [] OTHER -> 96 + index_of(AsciiHigh, c)]

hex_digit(d) ==
    LET upper == S("0123456789ABCDEF")
        lower == S("0123456789abcdef")
    IN IF \E i \in DOMAIN upper : upper[i] = d
       THEN index_of(upper, d) - 1
       ELSE index_of(lower, d) - 1

\* The value of the hexadecimal digits name[2..n].
RECURSIVE hex_value(_, _)
hex_value(name, n) ==
    IF n < 2 THEN 0
    ELSE 16 * hex_value(name, n - 1) + hex_digit(SubSeq(name, n, n))

\* The code point of a character.
ord(c) == IF Len(c) = 1 THEN ord_table[c] ELSE hex_value(c, Len(c))

\* The code points \s matches in a str pattern, as ranges <<first, last>>.
SpaceRanges == <<
    <<9, 13>>, <<28, 32>>, <<133, 133>>, <<160, 160>>,
    <<5760, 5760>>, <<8192, 8202>>, <<8232, 8233>>, <<8239, 8239>>,
    <<8287, 8287>>, <<12288, 12288>>
>>

\* The code points \w matches in a str pattern (Unicode 14.0.0), as ranges
\* <<first, last>>.
WordRanges == <<
    <<48, 57>>, <<65, 90>>, <<95, 95>>, <<97, 122>>,
    <<170, 170>>, <<178, 179>>, <<181, 181>>, <<185, 186>>,
    <<188, 190>>, <<192, 214>>, <<216, 246>>, <<248, 705>>,
    <<710, 721>>, <<736, 740>>, <<748, 748>>, <<750, 750>>,
    <<880, 884>>, <<886, 887>>, <<890, 893>>, <<895, 895>>,
    <<902, 902>>, <<904, 906>>, <<908, 908>>, <<910, 929>>,
    <<931, 1013>>, <<1015, 1153>>, <<1162, 1327>>, <<1329, 1366>>,
    <<1369, 1369>>, <<1376, 1416>>, <<1488, 1514>>, <<1519, 1522>>,
    <<1568, 1610>>, <<1632, 1641>>, <<1646, 1647>>, <<1649, 1747>>,
    <<1749, 1749>>, <<1765, 1766>>, <<1774, 1788>>, <<1791, 1791>>,
    <<1808, 1808>>, <<1810, 1839>>, <<1869, 1957>>, <<1969, 1969>>,
    <<1984, 2026>>, <<2036, 2037>>, <<2042, 2042>>, <<2048, 2069>>,
    <<2074, 2074>>, <<2084, 2084>>, <<2088, 2088>>, <<2112, 2136>>,
    <<2144, 2154>>, <<2160, 2183>>, <<2185, 2190>>, <<2208, 2249>>,
    <<2308, 2361>>, <<2365, 2365>>, <<2384, 2384>>, <<2392, 2401>>,
    <<2406, 2415>>, <<2417, 2432>>, <<2437, 2444>>, <<2447, 2448>>,
    <<2451, 2472>>, <<2474, 2480>>, <<2482, 2482>>, <<2486, 2489>>,
    <<2493, 2493>>, <<2510, 2510>>, <<2524, 2525>>, <<2527, 2529>>,
    <<2534, 2545>>, <<2548, 2553>>, <<2556, 2556>>, <<2565, 2570>>,
    <<2575, 2576>>, <<2579, 2600>>, <<2602, 2608>>, <<2610, 2611>>,
    <<2613, 2614>>, <<2616, 2617>>, <<2649, 2652>>, <<2654, 2654>>,
    <<2662, 2671>>, <<2674, 2676>>, <<2693, 2701>>, <<2703, 2705>>,
    <<2707, 2728>>, <<2730, 2736>>, <<2738, 2739>>, <<2741, 2745>>,
    <<2749, 2749>>, <<2768, 2768>>, <<2784, 2785>>, <<2790, 2799>>,
    <<2809, 2809>>, <<2821, 2828>>, <<2831, 2832>>, <<2835, 2856>>,
    <<2858, 2864>>, <<2866, 2867>>, <<2869, 2873>>, <<2877, 2877>>,
    <<2908, 2909>>, <<2911, 2913>>, <<2918, 2927>>, <<2929, 2935>>,
    <<2947, 2947>>, <<2949, 2954>>, <<2958, 2960>>, <<2962, 2965>>,
    <<2969, 2970>>, <<2972, 2972>>, <<2974, 2975>>, <<2979, 2980>>,
    <<2984, 2986>>, <<2990, 3001>>, <<3024, 3024>>, <<3046, 3058>>,
    <<3077, 3084>>, <<3086, 3088>>, <<3090, 3112>>, <<3114, 3129>>,
    <<3133, 3133>>, <<3160, 3162>>, <<3165, 3165>>, <<3168, 3169>>,
    <<3174, 3183>>, <<3192, 3198>>, <<3200, 3200>>, <<3205, 3212>>,
    <<3214, 3216>>, <<3218, 3240>>, <<3242, 3251>>, <<3253, 3257>>,
    <<3261, 3261>>, <<3293, 3294>>, <<3296, 3297>>, <<3302, 3311>>,
    <<3313, 3314>>, <<3332, 3340>>, <<3342, 3344>>, <<3346, 3386>>,
    <<3389, 3389>>, <<3406, 3406>>, <<3412, 3414>>, <<3416, 3425>>,
    <<3430, 3448>>, <<3450, 3455>>, <<3461, 3478>>, <<3482, 3505>>,
    <<3507, 3515>>, <<3517, 3517>>, <<3520, 3526>>, <<3558, 3567>>,
    <<3585, 3632>>, <<3634, 3635>>, <<3648, 3654>>, <<3664, 3673>>,
    <<3713, 3714>>, <<3716, 3716>>, <<3718, 3722>>, <<3724, 3747>>,
    <<3749, 3749>>, <<3751, 3760>>, <<3762, 3763>>, <<3773, 3773>>,
    <<3776, 3780>>, <<3782, 3782>>, <<3792, 3801>>, <<3804, 3807>>,
    <<3840, 3840>>, <<3872, 3891>>, <<3904, 3911>>, <<3913, 3948>>,
    <<3976, 3980>>, <<4096, 4138>>, <<4159, 4169>>, <<4176, 4181>>,
    <<4186, 4189>>, <<4193, 4193>>, <<4197, 4198>>, <<4206, 4208>>,
    <<4213, 4225>>, <<4238, 4238>>, <<4240, 4249>>, <<4256, 4293>>,
    <<4295, 4295>>, <<4301, 4301>>, <<4304, 4346>>, <<4348, 4680>>,
    <<4682, 4685>>, <<4688, 4694>>, <<4696, 4696>>, <<4698, 4701>>,
    <<4704, 4744>>, <<4746, 4749>>, <<4752, 4784>>, <<4786, 4789>>,
    <<4792, 4798>>, <<4800, 4800>>, <<4802, 4805>>, <<4808, 4822>>,
    <<4824, 4880>>, <<4882, 4885>>, <<4888, 4954>>, <<4969, 4988>>,
    <<4992, 5007>>, <<5024, 5109>>, <<5112, 5117>>, <<5121, 5740>>,
    <<5743, 5759>>, <<5761, 5786>>, <<5792, 5866>>, <<5870, 5880>>,
    <<5888, 5905>>, <<5919, 5937>>, <<5952, 5969>>, <<5984, 5996>>,
    <<5998, 6000>>, <<6016, 6067>>, <<6103, 6103>>, <<6108, 6108>>,
    <<6112, 6121>>, <<6128, 6137>>, <<6160, 6169>>, <<6176, 6264>>,
    <<6272, 6276>>, <<6279, 6312>>, <<6314, 6314>>, <<6320, 6389>>,
    <<6400, 6430>>, <<6470, 6509>>, <<6512, 6516>>, <<6528, 6571>>,
    <<6576, 6601>>, <<6608, 6618>>, <<6656, 6678>>, <<6688, 6740>>,
    <<6784, 6793>>, <<6800, 6809>>, <<6823, 6823>>, <<6917, 6963>>,
    <<6981, 6988>>, <<6992, 7001>>, <<7043, 7072>>, <<7086, 7141>>,
    <<7168, 7203>>, <<7232, 7241>>, <<7245, 7293>>, <<7296, 7304>>,
    <<7312, 7354>>, <<7357, 7359>>, <<7401, 7404>>, <<7406, 7411>>,
    <<7413, 7414>>, <<7418, 7418>>, <<7424, 7615>>, <<7680, 7957>>,
    <<7960, 7965>>, <<7968, 8005>>, <<8008, 8013>>, <<8016, 8023>>,
    <<8025, 8025>>, <<8027, 8027>>, <<8029, 8029>>, <<8031, 8061>>,
    <<8064, 8116>>, <<8118, 8124>>, <<8126, 8126>>, <<8130, 8132>>,
    <<8134, 8140>>, <<8144, 8147>>, <<8150, 8155>>, <<8160, 8172>>,
    <<8178, 8180>>, <<8182, 8188>>, <<8304, 8305>>, <<8308, 8313>>,
    <<8319, 8329>>, <<8336, 8348>>, <<8450, 8450>>, <<8455, 8455>>,
    <<8458, 8467>>, <<8469, 8469>>, <<8473, 8477>>, <<8484, 8484>>,
    <<8486, 8486>>, <<8488, 8488>>, <<8490, 8493>>, <<8495, 8505>>,
    <<8508, 8511>>, <<8517, 8521>>, <<8526, 8526>>, <<8528, 8585>>,
    <<9312, 9371>>, <<9450, 9471>>, <<10102, 10131>>, <<11264, 11492>>,
    <<11499, 11502>>, <<11506, 11507>>, <<11517, 11517>>, <<11520, 11557>>,
    <<11559, 11559>>, <<11565, 11565>>, <<11568, 11623>>, <<11631, 11631>>,
    <<11648, 11670>>, <<11680, 11686>>, <<11688, 11694>>, <<11696, 11702>>,
    <<11704, 11710>>, <<11712, 11718>>, <<11720, 11726>>, <<11728, 11734>>,
    <<11736, 11742>>, <<11823, 11823>>, <<12293, 12295>>, <<12321, 12329>>,
    <<12337, 12341>>, <<12344, 12348>>, <<12353, 12438>>, <<12445, 12447>>,
    <<12449, 12538>>, <<12540, 12543>>, <<12549, 12591>>, <<12593, 12686>>,
    <<12690, 12693>>, <<12704, 12735>>, <<12784, 12799>>, <<12832, 12841>>,
    <<12872, 12879>>, <<12881, 12895>>, <<12928, 12937>>, <<12977, 12991>>,
    <<13312, 19903>>, <<19968, 42124>>, <<42192, 42237>>, <<42240, 42508>>,
    <<42512, 42539>>, <<42560, 42606>>, <<42623, 42653>>, <<42656, 42735>>,
    <<42775, 42783>>, <<42786, 42888>>, <<42891, 42954>>, <<42960, 42961>>,
    <<42963, 42963>>, <<42965, 42969>>, <<42994, 43009>>, <<43011, 43013>>,
    <<43015, 43018>>, <<43020, 43042>>, <<43056, 43061>>, <<43072, 43123>>,
    <<43138, 43187>>, <<43216, 43225>>, <<43250, 43255>>, <<43259, 43259>>,
    <<43261, 43262>>, <<43264, 43301>>, <<43312, 43334>>, <<43360, 43388>>,
    <<43396, 43442>>, <<43471, 43481>>, <<43488, 43492>>, <<43494, 43518>>,
    <<43520, 43560>>, <<43584, 43586>>, <<43588, 43595>>, <<43600, 43609>>,
    <<43616, 43638>>, <<43642, 43642>>, <<43646, 43695>>, <<43697, 43697>>,
    <<43701, 43702>>, <<43705, 43709>>, <<43712, 43712>>, <<43714, 43714>>,
    <<43739, 43741>>, <<43744, 43754>>, <<43762, 43764>>, <<43777, 43782>>,
    <<43785, 43790>>, <<43793, 43798>>, <<43808, 43814>>, <<43816, 43822>>,
    <<43824, 43866>>, <<43868, 43881>>, <<43888, 44002>>, <<44016, 44025>>,
    <<44032, 55203>>, <<55216, 55238>>, <<55243, 55291>>, <<63744, 64109>>,
    <<64112, 64217>>, <<64256, 64262>>, <<64275, 64279>>, <<64285, 64285>>,
    <<64287, 64296>>, <<64298, 64310>>, <<64312, 64316>>, <<64318, 64318>>,
    <<64320, 64321>>, <<64323, 64324>>, <<64326, 64433>>, <<64467, 64829>>,
    <<64848, 64911>>, <<64914, 64967>>, <<65008, 65019>>, <<65136, 65140>>,
    <<65142, 65276>>, <<65296, 65305>>, <<65313, 65338>>, <<65345, 65370>>,
    <<65382, 65470>>, <<65474, 65479>>, <<65482, 65487>>, <<65490, 65495>>,
    <<65498, 65500>>, <<65536, 65547>>, <<65549, 65574>>, <<65576, 65594>>,
    <<65596, 65597>>, <<65599, 65613>>, <<65616, 65629>>, <<65664, 65786>>,
    <<65799, 65843>>, <<65856, 65912>>, <<65930, 65931>>, <<66176, 66204>>,
    <<66208, 66256>>, <<66273, 66299>>, <<66304, 66339>>, <<66349, 66378>>,
    <<66384, 66421>>, <<66432, 66461>>, <<66464, 66499>>, <<66504, 66511>>,
    <<66513, 66517>>, <<66560, 66717>>, <<66720, 66729>>, <<66736, 66771>>,
    <<66776, 66811>>, <<66816, 66855>>, <<66864, 66915>>, <<66928, 66938>>,
    <<66940, 66954>>, <<66956, 66962>>, <<66964, 66965>>, <<66967, 66977>>,
    <<66979, 66993>>, <<66995, 67001>>, <<67003, 67004>>, <<67072, 67382>>,
    <<67392, 67413>>, <<67424, 67431>>, <<67456, 67461>>, <<67463, 67504>>,
    <<67506, 67514>>, <<67584, 67589>>, <<67592, 67592>>, <<67594, 67637>>,
    <<67639, 67640>>, <<67644, 67644>>, <<67647, 67669>>, <<67672, 67702>>,
    <<67705, 67742>>, <<67751, 67759>>, <<67808, 67826>>, <<67828, 67829>>,
    <<67835, 67867>>, <<67872, 67897>>, <<67968, 68023>>, <<68028, 68047>>,
    <<68050, 68096>>, <<68112, 68115>>, <<68117, 68119>>, <<68121, 68149>>,
    <<68160, 68168>>, <<68192, 68222>>, <<68224, 68255>>, <<68288, 68295>>,
    <<68297, 68324>>, <<68331, 68335>>, <<68352, 68405>>, <<68416, 68437>>,
    <<68440, 68466>>, <<68472, 68497>>, <<68521, 68527>>, <<68608, 68680>>,
    <<68736, 68786>>, <<68800, 68850>>, <<68858, 68899>>, <<68912, 68921>>,
    <<69216, 69246>>, <<69248, 69289>>, <<69296, 69297>>, <<69376, 69415>>,
    <<69424, 69445>>, <<69457, 69460>>, <<69488, 69505>>, <<69552, 69579>>,
    <<69600, 69622>>, <<69635, 69687>>, <<69714, 69743>>, <<69745, 69746>>,
    <<69749, 69749>>, <<69763, 69807>>, <<69840, 69864>>, <<69872, 69881>>,
    <<69891, 69926>>, <<69942, 69951>>, <<69956, 69956>>, <<69959, 69959>>,
    <<69968, 70002>>, <<70006, 70006>>, <<70019, 70066>>, <<70081, 70084>>,
    <<70096, 70106>>, <<70108, 70108>>, <<70113, 70132>>, <<70144, 70161>>,
    <<70163, 70187>>, <<70272, 70278>>, <<70280, 70280>>, <<70282, 70285>>,
    <<70287, 70301>>, <<70303, 70312>>, <<70320, 70366>>, <<70384, 70393>>,
    <<70405, 70412>>, <<70415, 70416>>, <<70419, 70440>>, <<70442, 70448>>,
    <<70450, 70451>>, <<70453, 70457>>, <<70461, 70461>>, <<70480, 70480>>,
    <<70493, 70497>>, <<70656, 70708>>, <<70727, 70730>>, <<70736, 70745>>,
    <<70751, 70753>>, <<70784, 70831>>, <<70852, 70853>>, <<70855, 70855>>,
    <<70864, 70873>>, <<71040, 71086>>, <<71128, 71131>>, <<71168, 71215>>,
    <<71236, 71236>>, <<71248, 71257>>, <<71296, 71338>>, <<71352, 71352>>,
    <<71360, 71369>>, <<71424, 71450>>, <<71472, 71483>>, <<71488, 71494>>,
    <<71680, 71723>>, <<71840, 71922>>, <<71935, 71942>>, <<71945, 71945>>,
    <<71948, 71955>>, <<71957, 71958>>, <<71960, 71983>>, <<71999, 71999>>,
    <<72001, 72001>>, <<72016, 72025>>, <<72096, 72103>>, <<72106, 72144>>,
    <<72161, 72161>>, <<72163, 72163>>, <<72192, 72192>>, <<72203, 72242>>,
    <<72250, 72250>>, <<72272, 72272>>, <<72284, 72329>>, <<72349, 72349>>,
    <<72368, 72440>>, <<72704, 72712>>, <<72714, 72750>>, <<72768, 72768>>,
    <<72784, 72812>>, <<72818, 72847>>, <<72960, 72966>>, <<72968, 72969>>,
    <<72971, 73008>>, <<73030, 73030>>, <<73040, 73049>>, <<73056, 73061>>,
    <<73063, 73064>>, <<73066, 73097>>, <<73112, 73112>>, <<73120, 73129>>,
    <<73440, 73458>>, <<73648, 73648>>, <<73664, 73684>>, <<73728, 74649>>,
    <<74752, 74862>>, <<74880, 75075>>, <<77712, 77808>>, <<77824, 78894>>,
    <<82944, 83526>>, <<92160, 92728>>, <<92736, 92766>>, <<92768, 92777>>,
    <<92784, 92862>>, <<92864, 92873>>, <<92880, 92909>>, <<92928, 92975>>,
    <<92992, 92995>>, <<93008, 93017>>, <<93019, 93025>>, <<93027, 93047>>,
    <<93053, 93071>>, <<93760, 93846>>, <<93952, 94026>>, <<94032, 94032>>,
    <<94099, 94111>>, <<94176, 94177>>, <<94179, 94179>>, <<94208, 100343>>,
    <<100352, 101589>>, <<101632, 101640>>, <<110576, 110579>>, <<110581, 110587>>,
    <<110589, 110590>>, <<110592, 110882>>, <<110928, 110930>>, <<110948, 110951>>,
    <<110960, 111355>>, <<113664, 113770>>, <<113776, 113788>>, <<113792, 113800>>,
    <<113808, 113817>>, <<119520, 119539>>, <<119648, 119672>>, <<119808, 119892>>,
    <<119894, 119964>>, <<119966, 119967>>, <<119970, 119970>>, <<119973, 119974>>,
    <<119977, 119980>>, <<119982, 119993>>, <<119995, 119995>>, <<119997, 120003>>,
    <<120005, 120069>>, <<120071, 120074>>, <<120077, 120084>>, <<120086, 120092>>,
    <<120094, 120121>>, <<120123, 120126>>, <<120128, 120132>>, <<120134, 120134>>,
    <<120138, 120144>>, <<120146, 120485>>, <<120488, 120512>>, <<120514, 120538>>,
    <<120540, 120570>>, <<120572, 120596>>, <<120598, 120628>>, <<120630, 120654>>,
    <<120656, 120686>>, <<120688, 120712>>, <<120714, 120744>>, <<120746, 120770>>,
    <<120772, 120779>>, <<120782, 120831>>, <<122624, 122654>>, <<123136, 123180>>,
    <<123191, 123197>>, <<123200, 123209>>, <<123214, 123214>>, <<123536, 123565>>,
    <<123584, 123627>>, <<123632, 123641>>, <<124896, 124902>>, <<124904, 124907>>,
    <<124909, 124910>>, <<124912, 124926>>, <<124928, 125124>>, <<125127, 125135>>,
    <<125184, 125251>>, <<125259, 125259>>, <<125264, 125273>>, <<126065, 126123>>,
    <<126125, 126127>>, <<126129, 126132>>, <<126209, 126253>>, <<126255, 126269>>,
    <<126464, 126467>>, <<126469, 126495>>, <<126497, 126498>>, <<126500, 126500>>,
    <<126503, 126503>>, <<126505, 126514>>, <<126516, 126519>>, <<126521, 126521>>,
    <<126523, 126523>>, <<126530, 126530>>, <<126535, 126535>>, <<126537, 126537>>,
    <<126539, 126539>>, <<126541, 126543>>, <<126545, 126546>>, <<126548, 126548>>,
    <<126551, 126551>>, <<126553, 126553>>, <<126555, 126555>>, <<126557, 126557>>,
    <<126559, 126559>>, <<126561, 126562>>, <<126564, 126564>>, <<126567, 126570>>,
    <<126572, 126578>>, <<126580, 126583>>, <<126585, 126588>>, <<126590, 126590>>,
    <<126592, 126601>>, <<126603, 126619>>, <<126625, 126627>>, <<126629, 126633>>,
    <<126635, 126651>>, <<127232, 127244>>, <<130032, 130041>>, <<131072, 173791>>,
    <<173824, 177976>>, <<177984, 178205>>, <<178208, 183969>>, <<183984, 191456>>,
    <<194560, 195101>>, <<196608, 201546>>
>>

in_ranges(cp, ranges) ==
    \E k \in DOMAIN ranges : ranges[k][1] <= cp /\ cp <= ranges[k][2]

\* str patterns are Unicode patterns: \s and \w are the classes of the
\* Unicode database, not the ASCII ones.
in_class(kind, c) ==
    CASE kind = "spaces"   -> in_ranges(ord(c), SpaceRanges)
      [] kind = "word"     -> in_ranges(ord(c), WordRanges)
      [] kind = "notquote" -> c # "\""

\* Variant of min_count: + read as *, a capture may be empty.
min_count_star(kind) == 0

min_count(kind) == IF kind = "spaces" THEN 0 ELSE 1

\* The end (exclusive) of the longest run of characters of a class from i.
run_end(kind, text, i) ==
    LET stops == {j \in i..Len(text) : ~in_class(kind, text[j])}
    IN IF stops = {} THEN Len(text) + 1 ELSE Min(stops)

NoMatch == [ok |-> FALSE, end |-> 0, groups |-> <<>>]

\* Match elements k.. of pat against text at i.  A repetition is greedy: it
\* first takes the whole run, and gives back one character at a time while
\* the rest of the pattern fails (match_run, j the end being tried).
RECURSIVE match_from(_, _, _, _, _)
RECURSIVE match_run(_, _, _, _, _, _)
match_from(pat, k, text, i, groups) ==
    IF k > Len(pat) THEN [ok |-> TRUE, end |-> i, groups |-> groups]
    ELSE IF pat[k].kind = "lit"
    THEN IF StartsAt(text, i, pat[k].text)
         THEN match_from(pat, k + 1, text, i + Len(pat[k].text), groups)
         ELSE NoMatch
    ELSE match_run(pat, k, text, i, run_end(pat[k].kind, text, i), groups)

match_run(pat, k, text, i, j, groups) ==
    IF j < i + min_count(pat[k].kind) THEN NoMatch
    ELSE LET r == match_from(pat, k + 1, text, j,
                      IF pat[k].kind = "spaces" THEN groups
                      ELSE Append(groups, SubSeq(text, i, j - 1)))
         IN IF r.ok THEN r ELSE match_run(pat, k, text, i, j - 1, groups)

\* The replacement template with the groups of a match filled in.
RECURSIVE expand(_, _)
expand(repl, groups) ==
    IF repl = <<>> THEN <<>>
    ELSE (IF Head(repl).group = 0 THEN Head(repl).text
          ELSE groups[Head(repl).group])
         \o expand(Tail(repl), groups)

\* re.sub(pattern, replacement, text) from position i on: the leftmost match
\* is replaced and the scan resumes after it.  No pattern here matches the
\* empty string.
RECURSIVE re_sub_from(_, _, _, _)
re_sub_from(pat, repl, text, i) ==
    LET starts == {j \in i..Len(text) : match_from(pat, 1, text, j, <<>>).ok}
    IN IF starts = {} THEN SubSeq(text, i, Len(text))
       ELSE LET j == Min(starts)
                m == match_from(pat, 1, text, j, <<>>)
            IN SubSeq(text, i, j - 1) \o expand(repl, m.groups)
               \o re_sub_from(pat, repl, text, m.end)

re_sub(pat, repl, text) == re_sub_from(pat, repl, text, 1)

\* Message\s*\{\s*role:\s*Role::(\w+),\s*content:\s*
MessageHead ==
    << Lit("Message"), Spaces, Lit("{"), Spaces, Lit("role:"), Spaces,
       Lit("Role::"), Word, Lit(","), Spaces, Lit("content:"), Spaces >>

\* \.\.Default::default\(\)\s*\}
DefaultTail == << Lit("..Default::default()"), Spaces, Lit("}") >>

pattern1 ==
    MessageHead
    \o << Lit("\""), NotQuote, Lit("\""), Lit(".to_string(),"), Spaces >>
    \o DefaultTail
replacement1 ==
    << Txt("Message::text(Role::"), Grp(1), Txt(", \""), Grp(2), Txt("\")") >>

pattern2 ==
    MessageHead \o << Word, Lit(".to_string(),"), Spaces >> \o DefaultTail
replacement2 ==
    << Txt("Message::text(Role::"), Grp(1), Txt(", "), Grp(2), Txt(")") >>

pattern3 ==
    MessageHead
    \o << Lit("\""), NotQuote, Lit("\""), Lit(".to_string(),"), Spaces,
          Lit("name:"), Spaces, Lit("None,"), Spaces,
          Lit("tool_calls:"), Spaces, Lit("None,"), Spaces,
          Lit("tool_call_id:"), Spaces, Lit("None,"), Spaces,
          Lit("reasoning_content:"), Spaces, Lit("None,"), Spaces,
          Lit("reasoning:"), Spaces, Lit("None,"), Spaces,
          Lit("thought:"), Spaces, Lit("None,"), Spaces,
          Lit("thinking:"), Spaces, Lit("None,"), Spaces, Lit("}") >>
replacement3 ==
    << Txt("Message::text(Role::"), Grp(1), Txt(", \""), Grp(2), Txt("\")") >>

\* Variant of FixRules: the all-fields rule moved to the front.
FixRules_explicit_first ==
    << [pattern |-> pattern3, replacement |-> replacement3],
       [pattern |-> pattern1, replacement |-> replacement1],
       [pattern |-> pattern2, replacement |-> replacement2] >>

\* The three re.sub statements of fix_message_construction, in source order.
FixRules ==
    << [pattern |-> pattern1, replacement |-> replacement1],
       [pattern |-> pattern2, replacement |-> replacement2],
       [pattern |-> pattern3, replacement |-> replacement3] >>

\* The k-th statement content = re.sub(patternk, replacementk, content).
apply_rule(k, text) == re_sub(FixRules[k].pattern, FixRules[k].replacement, text)

fix_message_construction(text) == apply_rule(3, apply_rule(2, apply_rule(1, text)))

-----------------------------------------------------------------------------
(* The corpus: what the files of the directory may hold.                   *)

NumFiles == 2
Files == 1..NumFiles

\* Message { role: Role::<role>, content: <value>.to_string(), <tail> } with
\* ws wherever the patterns allow white space.
Construct(ws, role, value, tail) ==
    S("Message") \o ws \o S("{") \o ws \o S("role:") \o ws \o S("Role::")
    \o role \o S(",") \o ws \o S("content:") \o ws \o value
    \o S(".to_string(),") \o ws \o tail \o ws \o S("}")

Quoted(text) == <<"\"">> \o text \o <<"\"">>

DefaultFill == S("..Default::default()")

\* name: None, ... thinking: None<last>
AllNone(ws, last) ==
    S("name:") \o ws \o S("None,") \o ws
    \o S("tool_calls:") \o ws \o S("None,") \o ws
    \o S("tool_call_id:") \o ws \o S("None,") \o ws
    \o S("reasoning_content:") \o ws \o S("None,") \o ws
    \o S("reasoning:") \o ws \o S("None,") \o ws
    \o S("thought:") \o ws \o S("None,") \o ws
    \o S("thinking:") \o ws \o S("None") \o last

WsStyles == { <<>>, <<" ">>, <<"\n", " ", " ">> }

\* The three complete shapes, by the number the source gives their pattern.
ShapeText(shape, ws, role) ==
    CASE shape = 1 -> Construct(ws, role, Quoted(S("hi")), DefaultFill)
      [] shape = 2 -> Construct(ws, role, S("prompt"), DefaultFill)
      [] shape = 3 -> Construct(ws, role, Quoted(S("hi")), AllNone(ws, S(",")))

ShapeRole(shape) ==
    CASE shape = 1 -> S("User") [] shape = 2 -> S("Assistant")
      [] shape = 3 -> S("System")

Before == S("let m = ")
After == S(";")

CompleteCases == [shape : {1, 2, 3}, ws : WsStyles]

CaseText(c) == Before \o ShapeText(c.shape, c.ws, ShapeRole(c.shape)) \o After

\* One file holding two constructs, of shapes 1 and 2.
TwoConstructs ==
    ShapeText(1, <<" ">>, S("User")) \o S(", ")
    \o ShapeText(2, <<" ">>, S("Assistant"))

\* Constructs that only partly resemble a pattern.
EmptyLiteral == Construct(<<" ">>, S("User"), Quoted(<<>>), DefaultFill)
ExtraField ==
    Construct(<<" ">>, S("User"), Quoted(S("hi")),
              S("name: None, ") \o DefaultFill)
NoLastComma ==
    Construct(<<" ">>, S("User"), Quoted(S("hi")), AllNone(<<" ">>, <<>>))
BareAllNone ==
    Construct(<<" ">>, S("User"), S("prompt"), AllNone(<<" ">>, S(",")))
\* A bare value that is no identifier: U+4DC0, a symbol \w does not match.
SymbolValue == Construct(<<" ">>, S("User"), <<"U4DC0">>, DefaultFill)
PartialTexts ==
    {EmptyLiteral, ExtraField, NoLastComma, BareAllNone, SymbolValue}

\* Constructs of shape 2 with characters outside ASCII: the ideographic
\* space (U+3000) as white space, and the identifier café.
WideSpace == Construct(<<"U3000">>, S("Assistant"), S("prompt"), DefaultFill)
Accented ==
    Construct(<<" ">>, S("Assistant"), S("caf") \o <<"U00E9">>, DefaultFill)
UnicodeTexts == {WideSpace, Accented}

\* Text with no construct at all.
PlainTexts == { <<>>, S("fn main() {}\n") }

\* A shape-1 construct whose literal is the head of a second one: the
\* closing quote of the first literal opens the literal of the second.
Overlapping ==
    Construct(<<" ">>, S("User"),
              Quoted(S("Message { role: Role::User, content: ")), DefaultFill)
    \o S(" x") \o <<"\"">> \o S(".to_string(), ") \o DefaultFill \o S(" }")

\* A shape-1 construct whose literal is the text of a shape-2 construct.
Nested ==
    Construct(<<" ">>, S("User"),
              Quoted(ShapeText(2, <<" ">>, S("Assistant"))), DefaultFill)

\* Message { role: Role::User, content: "hi".to_string(), ..Default::default() }
Example == ShapeText(1, <<" ">>, S("User"))

FixTexts ==
    {CaseText(c) : c \in CompleteCases} \cup {Example, TwoConstructs}
    \cup PartialTexts \cup PlainTexts \cup UnicodeTexts
    \cup {Overlapping, Nested}

\* Comment lines of the Rust sources, with and without table keys.
TrScenario ==   \* // 创建OpenAI客户端
    S("// ") \o <<"U521B", "U5EFA">> \o S("OpenAI") \o <<"U5BA2", "U6237", "U7AEF">>
TrReturns ==    \* /// 返回
    S("/// ") \o <<"U8FD4", "U56DE">>
TrParticle ==   \* // 创的建
    S("// ") \o <<"U521B", "U7684", "U5EFA">>
TrTwoLines ==   \* /// 示例 <newline> /// 参数
    S("/// ") \o <<"U793A", "U4F8B">> \o <<"\n">> \o S("/// ") \o <<"U53C2", "U6570">>
TrSplitKey ==   \* 创 <newline> 建
    <<"U521B", "\n", "U5EFA">>
TrNoKey == S("fn main() {}\n// plain\n")
TrEnglishKey == S("// cast x as y")

TrKeyless == { <<>>, TrNoKey, TrSplitKey }

TrTexts ==
    { <<>>, TrScenario, TrReturns, TrParticle, TrTwoLines, TrSplitKey,
      TrNoKey, TrEnglishKey }

-----------------------------------------------------------------------------
(* The drivers.                                                            *)

Unread == [seen |-> FALSE, text |-> <<>>]
Holding(text) == [seen |-> TRUE, text |-> text]

Msg(what, arg) == [what |-> what, arg |-> arg]

Range(seq) == {seq[i] : i \in DOMAIN seq}

\* content != new_content (fix main), translated_content != content
\* (translate_file): whether the file is written.
fix_changed(old, new) == old # new

\* Variant of translate_changed: the comparison dropped, every file written.
translate_changed_always(old, new) == TRUE

translate_changed(old, new) == new # old

\* list(src_dir.rglob('*.rs')): nothing when src does not exist.
rust_files == IF dirExists THEN NumFiles ELSE 0

Init ==
    /\ driver \in {"fix", "translate"}
    /\ dirExists \in BOOLEAN
    /\ disk = [f \in Files |-> Unread]
    /\ pc = "start"
    /\ idx = 0
    /\ content = <<>>
    /\ cur = <<>>
    /\ count = 0
    /\ writes = <<>>
    /\ visited = {}
    /\ out = <<>>
    /\ status = <<>>
    /\ table = <<>>
    /\ line = <<>>
    /\ lineOut = [done |-> FALSE, text |-> <<>>]

\* fix main: examples does not exist.
FixNoDir ==
    /\ driver = "fix" /\ pc = "start" /\ ~dirExists
    /\ out' = Append(out, Msg("examples directory does not exist", 0))
    /\ status' = <<1>>
    /\ pc' = "exited"
    /\ UNCHANGED <<driver, dirExists, disk, idx, content, cur, count, writes,
                   visited, lineVars>>

\* fix main: the banner, fixed_count = 0, the loop begins.
FixBegin ==
    /\ driver = "fix" /\ pc = "start" /\ dirExists
    /\ out' = Append(out, Msg("fixing", 0))
    /\ count' = 0
    /\ idx' = 1
    /\ pc' = "loop"
    /\ UNCHANGED <<driver, dirExists, disk, content, cur, writes, visited,
                   status, lineVars>>

\* content = rs_file.read_text()
FixRead ==
    /\ driver = "fix" /\ pc = "loop" /\ idx <= NumFiles
    /\ \E text \in FixTexts :
          /\ disk' = [disk EXCEPT ![idx] = Holding(text)]
          /\ content' = text
          /\ cur' = text
    /\ pc' = "rule1"
    /\ UNCHANGED <<driver, dirExists, idx, count, writes, visited, out,
                   status, lineVars>>

\* read_text raises (unreadable, not UTF-8): nothing catches it.
FixReadRaises ==
    /\ driver = "fix" /\ pc = "loop" /\ idx <= NumFiles
    /\ out' = Append(out, Msg("traceback", idx))
    /\ status' = <<1>>
    /\ pc' = "crashed"
    /\ UNCHANGED <<driver, dirExists, disk, idx, content, cur, count, writes,
                   visited, lineVars>>

\* The statements of fix_message_construction, one re.sub each.
FixRule1 ==
    /\ driver = "fix" /\ pc = "rule1"
    /\ cur' = apply_rule(1, cur)
    /\ pc' = "rule2"
    /\ UNCHANGED <<driver, dirExists, disk, idx, content, count, writes,
                   visited, out, status, lineVars>>

FixRule2 ==
    /\ driver = "fix" /\ pc = "rule2"
    /\ cur' = apply_rule(2, cur)
    /\ pc' = "rule3"
    /\ UNCHANGED <<driver, dirExists, disk, idx, content, count, writes,
                   visited, out, status, lineVars>>

FixRule3 ==
    /\ driver = "fix" /\ pc = "rule3"
    /\ cur' = apply_rule(3, cur)
    /\ pc' = "compare"
    /\ UNCHANGED <<driver, dirExists, disk, idx, content, count, writes,
                   visited, out, status, lineVars>>

\* if content != new_content: write_text, print, fixed_count += 1
FixCompare ==
    /\ driver = "fix" /\ pc = "compare"
    /\ IF fix_changed(content, cur)
       THEN /\ disk' = [disk EXCEPT ![idx] = Holding(cur)]
            /\ writes' = Append(writes, idx)
            /\ out' = Append(out, Msg("fixed", idx))
            /\ count' = count + 1
       ELSE UNCHANGED <<disk, writes, out, count>>
    /\ visited' = visited \cup {idx}
    /\ idx' = idx + 1
    /\ pc' = "loop"
    /\ UNCHANGED <<driver, dirExists, content, cur, status, lineVars>>

\* fix main: the loop is over, the summary.
FixSummary ==
    /\ driver = "fix" /\ pc = "loop" /\ idx > NumFiles
    /\ out' = Append(out, Msg("fixed files", count))
    /\ status' = <<0>>
    /\ pc' = "done"
    /\ UNCHANGED <<driver, dirExists, disk, idx, content, cur, count, writes,
                   visited, lineVars>>

\* translate main: rust_files = list(...), translated_count = 0.
TranslateBegin ==
    /\ driver = "translate" /\ pc = "start"
    /\ count' = 0
    /\ idx' = 1
    /\ pc' = "loop"
    /\ UNCHANGED <<driver, dirExists, disk, content, cur, writes, visited,
                   out, status, lineVars>>

\* if translate_file(filepath): print, translated_count += 1
TranslateFile ==
    /\ driver = "translate" /\ pc = "loop" /\ idx <= rust_files
    /\ \E text \in TrTexts :
          LET new == translated_content(text) IN
          /\ content' = text
          /\ cur' = new
          /\ IF translate_changed(text, new)
             THEN /\ disk' = [disk EXCEPT ![idx] = Holding(new)]
                  /\ writes' = Append(writes, idx)
                  /\ out' = Append(out, Msg("translated", idx))
                  /\ count' = count + 1
             ELSE /\ disk' = [disk EXCEPT ![idx] = Holding(text)]
                  /\ UNCHANGED <<writes, out, count>>
    /\ visited' = visited \cup {idx}
    /\ idx' = idx + 1
    /\ UNCHANGED <<driver, dirExists, pc, status, lineVars>>

\* open or read raises in translate_file: nothing catches it.
TranslateFileRaises ==
    /\ driver = "translate" /\ pc = "loop" /\ idx <= rust_files
    /\ out' = Append(out, Msg("traceback", idx))
    /\ status' = <<1>>
    /\ pc' = "crashed"
    /\ UNCHANGED <<driver, dirExists, disk, idx, content, cur, count, writes,
                   visited, lineVars>>

\* translate main: the total, then the script ends normally.
TranslateSummary ==
    /\ driver = "translate" /\ pc = "loop" /\ idx > rust_files
    /\ out' = Append(out, Msg("total files translated", count))
    /\ status' = <<0>>
    /\ pc' = "done"
    /\ UNCHANGED <<driver, dirExists, disk, idx, content, cur, count, writes,
                   visited, lineVars>>

Next ==
    \/ FixNoDir
    \/ FixBegin
    \/ FixRead
    \/ FixReadRaises
    \/ FixRule1
    \/ FixRule2
    \/ FixRule3
    \/ FixCompare
    \/ FixSummary
    \/ TranslateBegin
    \/ TranslateFile
    \/ TranslateFileRaises
    \/ TranslateSummary

Spec == Init /\ [][Next]_vars

-----------------------------------------------------------------------------
(* translate_line on its own, over small tables and lines.                 *)

MaxEntries == 2
MaxLineLen == 2

LineKeys == { <<"a">>, <<"b">>, <<"a", "b">> }
LineValues == { <<"X">>, <<"Y">> }
LineItems == LineKeys \X LineValues

SeqsUpTo(set, n) == UNION {[1..k -> set] : k \in 0..n}

LineTables == {dict_display(items) : items \in SeqsUpTo(LineItems, MaxEntries)}
LineInputs == SeqsUpTo({"a", "b"}, MaxLineLen)

InitLine ==
    /\ driver = "none"
    /\ dirExists = FALSE
    /\ disk = [f \in Files |-> Unread]
    /\ pc = "line"
    /\ idx = 0
    /\ content = <<>>
    /\ cur = <<>>
    /\ count = 0
    /\ writes = <<>>
    /\ visited = {}
    /\ out = <<>>
    /\ status = <<>>
    /\ table \in LineTables
    /\ line \in LineInputs
    /\ lineOut = [done |-> FALSE, text |-> <<>>]

TranslateLine ==
    /\ pc = "line" /\ ~lineOut.done
    /\ lineOut' = [done |-> TRUE, text |-> translate_line_with(table, line)]
    /\ UNCHANGED <<driverVars, table, line>>

NextLine == TranslateLine

SpecLine == InitLine /\ [][NextLine]_vars

-----------------------------------------------------------------------------
(* Properties.                                                             *)

\* The file the loop has just finished, once it has finished one.
LastFile == idx - 1
FileDone == idx > 1 /\ pc \in {"loop", "done"}

\* C1: for every file a driver has processed, the file was written if and
\* only if the rewritten content differs from the content read; an unchanged
\* file (the empty one included) is never written, and a written file holds
\* the rewritten content.
C1_WrittenIffChanged ==
    FileDone =>
        /\ (LastFile \in Range(writes)) <=> (cur # content)
        /\ disk[LastFile] = Holding(cur)
        /\ count = Len(writes)
        /\ \A i, j \in DOMAIN writes : writes[i] = writes[j] => i = j

\* C1 witness: the first file was changed and written, the second is empty
\* and was not written.
C1_Witness ==
    /\ FileDone /\ idx = 3
    /\ writes = <<1>>
    /\ content = <<>>
    /\ disk[2] = Holding(<<>>)

\* The call the claim C2 promises for a match of rule k with these groups.
ClaimedCall(k, groups) ==
    S("Message::text(Role::") \o groups[1] \o S(", ")
    \o (IF k = 2 THEN groups[2] ELSE Quoted(groups[2])) \o S(")")

\* The occurrences of the three shapes in a text: <<rule, start>>.
Occurrences(text) ==
    {o \in (1..3) \X (1..Len(text)) :
        match_from(FixRules[o[1]].pattern, 1, text, o[2], <<>>).ok}

OccurrenceMatch(text, o) ==
    match_from(FixRules[o[1]].pattern, 1, text, o[2], <<>>)

EndsWith(text, tail) ==
    /\ Len(tail) <= Len(text)
    /\ SubSeq(text, Len(text) - Len(tail) + 1, Len(text)) = tail

\* The occurrences that do not start inside an occurrence starting earlier.
Outermost(text) ==
    LET occ == Occurrences(text) IN
    {o \in occ : ~ \E p \in occ :
        p[2] < o[2] /\ o[2] < OccurrenceMatch(text, p).end}

\* C2: every occurrence of one of the three complete shapes in the input
\* (those lying inside another occurrence set aside) is replaced by
\* Message::text(Role::R, L) with R the captured role and L the captured
\* literal exactly, and the text before the first and after the last
\* occurrence is unchanged.
C2_EveryOccurrenceReplaced ==
    (driver = "fix" /\ pc = "compare") =>
        LET occ == Outermost(content) IN
        /\ \A o \in occ :
              str_contains(ClaimedCall(o[1], OccurrenceMatch(content, o).groups), cur)
        /\ occ # {} =>
              LET first == Min({o[2] : o \in occ})
                  last == Max({OccurrenceMatch(content, o).end : o \in occ})
              IN /\ StartsAt(cur, 1, SubSeq(content, 1, first - 1))
                 /\ EndsWith(cur, SubSeq(content, last, Len(content)))

\* C3: a second translation pass over the translated content of a file
\* changes nothing.
C3_TranslateIdempotent ==
    (driver = "translate" /\ FileDone) => translated_content(cur) = cur

\* C4: fix_message_construction applied to its own result changes nothing.
C4_FixIdempotent ==
    (driver = "fix" /\ pc = "compare") => fix_message_construction(cur) = cur

Sub1(text) == re_sub(pattern1, replacement1, text)
Sub2(text) == re_sub(pattern2, replacement2, text)
Sub3(text) == re_sub(pattern3, replacement3, text)

\* C5 as stated: the all-fields rule is applied first, then the quoted
\* ..Default::default() rule, then the bare-identifier rule, each to the
\* result of the rules before it.
C5_ExplicitRuleFirst ==
    driver = "fix" =>
        /\ pc = "rule2" => cur = Sub3(content)
        /\ pc = "rule3" => cur = Sub1(Sub3(content))
        /\ pc = "compare" => cur = Sub2(Sub1(Sub3(content)))

\* C5 amended: the rules are applied in the order quoted ..Default::default()
\* rule, bare-identifier ..Default::default() rule, all-fields rule, each to
\* the whole text as left by the rules before it.
C5_SourceOrder ==
    driver = "fix" =>
        /\ pc = "rule1" => cur = content
        /\ pc = "rule2" => cur = Sub1(content)
        /\ pc = "rule3" => cur = Sub2(Sub1(content))
        /\ pc = "compare" => cur = Sub3(Sub2(Sub1(content)))

\* What a construct of the shape is to become:
\* Message::text(Role::<role>, <literal>).
ShapeCall(shape, role) ==
    S("Message::text(Role::") \o role \o S(", ")
    \o (IF shape = 2 THEN S("prompt") ELSE Quoted(S("hi"))) \o S(")")

\* C5 witness: a file with a shape-1 and a shape-2 construct, after the first
\* rule rewrote the one and before the second rewrites the other.
C5_Witness ==
    /\ driver = "fix" /\ pc = "rule2"
    /\ content = TwoConstructs
    /\ cur = ShapeCall(1, S("User")) \o S(", ") \o ShapeText(2, <<" ">>, S("Assistant"))

\* The entries 1..n of a table applied one after another, each replacing
\* every occurrence of its key in the line as the entries before it left it.
RECURSIVE InTableOrder(_, _, _)
InTableOrder(tbl, n, ln) ==
    IF n = 0 THEN ln
    ELSE str_replace(InTableOrder(tbl, n - 1, ln), tbl[n][1], tbl[n][2])

TableAbThenA == << <<S("ab"), S("X")>>, <<S("a"), S("Y")>> >>
TableAThenAb == << <<S("a"), S("Y")>>, <<S("ab"), S("X")>> >>
TableAOnly == << <<S("a"), S("Y")>> >>

\* C6: translate_line applies the entries in table order, each replacing
\* every occurrence of its key in the line as rewritten by the earlier ones;
\* with ab->X then a->Y the line "ab" becomes "X", with a->Y then ab->X it
\* becomes "Yb", and with a->Y alone the line "aa" becomes "YY".
C6_TableOrder ==
    lineOut.done =>
        /\ lineOut.text = InTableOrder(table, Len(table), line)
        /\ (table = TableAbThenA /\ line = S("ab")) => lineOut.text = S("X")
        /\ (table = TableAThenAb /\ line = S("ab")) => lineOut.text = S("Yb")
        /\ (table = TableAOnly /\ line = S("aa")) => lineOut.text = S("YY")

\* C6 witness: the table ab->X, a->Y was applied to the line "ab".
C6_Witness ==
    /\ lineOut.done
    /\ table = TableAbThenA
    /\ line = S("ab")
    /\ lineOut.text = S("X")

\* C7: when the script has ended, every file of the corpus was processed or
\* was reported as failed: a failure on one file does not keep the files
\* after it from being processed.
C7_FailureIsolated ==
    (status # <<>> /\ dirExists) =>
        \A f \in Files : f \in visited \/ Msg("traceback", f) \in Range(out)

FatalMessages ==
    {"examples directory does not exist", "src directory does not exist"}

\* C8: when the corpus directory does not exist, the script prints a fatal
\* message, processes and writes no file and ends with a non-zero status.
C8_MissingDirFatal ==
    (status # <<>> /\ ~dirExists) =>
        /\ status # <<0>>
        /\ \E i \in DOMAIN out : out[i].what \in FatalMessages
        /\ visited = {}
        /\ writes = <<>>

\* C9: every item written in the table is applied at the position where it
\* is written, with the value written there: a file is translated as the
\* items of the display, taken one by one, translate it.
C9_ItemsAsWritten ==
    (driver = "translate" /\ FileDone) =>
        cur = str_join(<<"\n">>,
                  LET lines == str_split(content, <<"\n">>) IN
                  [i \in DOMAIN lines |->
                      translate_line_with(TRANSLATIONS_items, lines[i])])

\* C10: a file with no complete occurrence of a structural pattern (plain
\* text, an empty quoted literal, a field before the boilerplate, a missing
\* last comma, a bare identifier before the listed fields, a bare symbol
\* that is no word character), respectively
\* with no table key in any line, is returned as it is and is not written.
C10_NoMatchNoChange ==
    /\ (driver = "fix" /\ pc = "compare" /\ content \in PartialTexts \cup PlainTexts)
          => cur = content
    /\ (FileDone /\ content \in (IF driver = "fix" THEN PartialTexts \cup PlainTexts
                                 ELSE TrKeyless))
          => /\ cur = content
             /\ LastFile \notin Range(writes)
             /\ disk[LastFile] = Holding(content)

\* C10 witness: the construct with an empty quoted literal went through the
\* three rules and was left alone.
C10_Witness ==
    /\ driver = "fix" /\ FileDone
    /\ content = EmptyLiteral
    /\ cur = EmptyLiteral
    /\ writes = <<>>

====
